---- MODULE Spec2Model ----
(***************************************************************************)
(* A model of the go-gntp client (package gntp): the REGISTER and NOTIFY   *)
(* packet encoders, the two transports (text-only and with raw resources), *)
(* the registered flag and the callback listener socket.                   *)
(*                                                                         *)
(* Text is modelled as a sequence of tokens (strings).  A packet is a      *)
(* sequence of lines; a line is the sequence of tokens written before its  *)
(* line terminator, so the blank line is the empty sequence.  What a call  *)
(* writes to its connection is the concatenation of the buffers handed to  *)
(* conn.Write: header lines, raw resource bytes and blank lines.           *)
(***************************************************************************)
EXTENDS Integers, Sequences, FiniteSets, TLC

VARIABLES
    Host,              \* Client.Host
    Port,              \* Client.Port
    ApplicationName,   \* Client.ApplicationName
    ApplicationIcon,   \* Client.ApplicationIcon: a pointer into Heap, 0 is nil
    IconMode,          \* Client.IconMode
    registered,        \* Client.registered
    callbackListener,  \* Client.callbackListener: an index of listeners, 0 is nil
    callbackHandler,   \* Client.callbackHandler: a handler name, "nil" is nil
    callbackURL,       \* Client.callbackURL: a token sequence, <<>> is ""
    listeners,         \* the listening sockets ever bound: "open" or "closed"
    nconn,             \* the number of connections ever established
    open,              \* the established outbound connections not yet closed
    everRegistered,    \* history: a Register call has returned nil
    last,              \* the last API call: its arguments, exchanges and result
    loops,             \* the acceptCallbacks goroutines ever started
    inbound            \* the callback connections ever accepted

clientVars == <<Host, Port, ApplicationName, ApplicationIcon, IconMode, registered,
                callbackListener, callbackHandler, callbackURL>>

vars == <<Host, Port, ApplicationName, ApplicationIcon, IconMode, registered,
          callbackListener, callbackHandler, callbackURL, listeners, nconn, open,
          everRegistered, last, loops, inbound>>

----------------------------------------------------------------------------
(* Bounds of the model. *)

\* outbound connections one client establishes
MaxConns == 3
\* NotificationTypes in one Register call
MaxTypes == 2
\* tokens in the response the peer sends
MaxResp == 3
\* listening sockets one client binds while it registers and notifies
MaxListeners == 1

----------------------------------------------------------------------------
(* Constants of package gntp. *)

GNTPVersion == "1.0"

DefaultPort == 23053

\* CRLF as a token sequence (in a response) and as a written line (in a packet)
CRLF == <<"\r", "\n">>

IconModeBinary == 0

IconModeFileURL == 1

IconModeDataURL == 2

IconModeHttpURL == 3

IconModeAuto == 4

IconModes == {IconModeBinary, IconModeFileURL, IconModeDataURL, IconModeHttpURL,
              IconModeAuto}

\* the nil error, the nil slice and the empty string
Nil == <<>>

\* the blank line: a line terminator with nothing before it
BlankLine == <<>>

----------------------------------------------------------------------------
(* Resources.  A *Resource is a pointer into Heap; pointer 3 is a copy of  *)
(* the Resource behind pointer 1 (same Identifier, same Data).             *)

Heap ==
    <<[Identifier |-> "uuid-a", Data |-> <<137, 80, 78, 71>>,
       SourcePath |-> <<"C:", "\\", "icons", "\\", "a.png">>, MimeType |-> "image/png"],
      [Identifier |-> "uuid-b", Data |-> <<255, 216>>,
       SourcePath |-> <<>>, MimeType |-> "image/jpeg"],
      [Identifier |-> "uuid-a", Data |-> <<137, 80, 78, 71>>,
       SourcePath |-> <<"C:", "\\", "icons", "\\", "a.png">>, MimeType |-> "image/png"]>>

ResourcePtrs == 0..Len(Heap)

----------------------------------------------------------------------------
(* Text helpers: what the strings package does, on token sequences. *)

\* strings.Contains(s, tok) for a token
Contains(s, tok) == \E i \in 1..Len(s) : s[i] = tok

\* the tokens unicode.IsSpace accepts
IsSpace(tok) == tok \in {" ", "\t", "\r", "\n"}

\* strings.TrimSpace(s): s without its leading and trailing white space
TrimSpace(s) ==
    LET keep == {i \in 1..Len(s) : ~IsSpace(s[i])}
    IN  IF keep = {} THEN <<>>
        ELSE SubSeq(s, CHOOSE i \in keep : \A j \in keep : i <= j,
                       CHOOSE i \in keep : \A j \in keep : j <= i)

\* strings.ReplaceAll(s, old, new) for tokens
ReplaceAll(s, old, new) == [i \in 1..Len(s) |-> IF s[i] = old THEN new ELSE s[i]]

\* the concatenation of a sequence of sequences
RECURSIVE Flatten(_)
Flatten(ss) == IF ss = <<>> THEN <<>> ELSE Head(ss) \o Flatten(Tail(ss))

----------------------------------------------------------------------------
(* Icon Reference Resolver. *)

B64Chars ==
    <<"A", "B", "C", "D", "E", "F", "G", "H", "I", "J", "K", "L", "M", "N", "O", "P",
      "Q", "R", "S", "T", "U", "V", "W", "X", "Y", "Z", "a", "b", "c", "d", "e", "f",
      "g", "h", "i", "j", "k", "l", "m", "n", "o", "p", "q", "r", "s", "t", "u", "v",
      "w", "x", "y", "z", "0", "1", "2", "3", "4", "5", "6", "7", "8", "9", "+", "/">>

\* one base64 quantum: n of the bytes b1, b2, b3 are data, the others are 0
B64Quantum(b1, b2, b3, n) ==
    LET v == b1 * 65536 + b2 * 256 + b3
    IN  <<B64Chars[(v \div 262144) + 1],
          B64Chars[((v \div 4096) % 64) + 1],
          IF n >= 2 THEN B64Chars[((v \div 64) % 64) + 1] ELSE "=",
          IF n >= 3 THEN B64Chars[(v % 64) + 1] ELSE "=">>

\* base64.StdEncoding.EncodeToString(data)
RECURSIVE EncodeToString(_)
EncodeToString(data) ==
    IF Len(data) = 0 THEN <<>>
    ELSE IF Len(data) = 1 THEN B64Quantum(data[1], 0, 0, 1)
    ELSE IF Len(data) = 2 THEN B64Quantum(data[1], data[2], 0, 2)
    ELSE B64Quantum(data[1], data[2], data[3], 3)
             \o EncodeToString(SubSeq(data, 4, Len(data)))

\* the line length of toDataURL's wrapping
MimeLineLen == 76

\* the loop of toDataURL with the test of line 359 left out: every line is
\* followed by the line terminator
RECURSIVE WrapLinesTerminated(_, _)
WrapLinesTerminated(encoded, i) ==
    IF i >= Len(encoded) THEN <<>>
    ELSE LET end == IF i + MimeLineLen > Len(encoded) THEN Len(encoded)
                    ELSE i + MimeLineLen
         IN  SubSeq(encoded, i + 1, end) \o CRLF
                 \o WrapLinesTerminated(encoded, i + MimeLineLen)

\* the loop of toDataURL from offset i (0-based) of encoded
RECURSIVE WrapLines(_, _)
WrapLines(encoded, i) ==
    IF i >= Len(encoded) THEN <<>>
    ELSE LET end == IF i + MimeLineLen > Len(encoded) THEN Len(encoded)
                    ELSE i + MimeLineLen
         IN  SubSeq(encoded, i + 1, end)
                 \o (IF end < Len(encoded) THEN CRLF ELSE <<>>)
                 \o WrapLines(encoded, i + MimeLineLen)

\* Resource.toDataURL
toDataURL(r) == <<"data:", r.MimeType, ";base64,">> \o WrapLines(EncodeToString(r.Data), 0)

\* getReference with line 334 left out: the source path goes into the file URL
\* as it is
getReferenceRawPath(r, mode) ==
    CASE mode = IconModeBinary -> <<"x-growl-resource://", r.Identifier>>
      [] mode = IconModeFileURL ->
            IF r.SourcePath # <<>>
            THEN <<"file:///">> \o r.SourcePath
            ELSE toDataURL(r)
      [] mode = IconModeHttpURL ->
            IF r.SourcePath # <<>> THEN r.SourcePath ELSE toDataURL(r)
      [] OTHER -> toDataURL(r)

\* Resource.getReference
getReference(r, mode) ==
    CASE mode = IconModeBinary -> <<"x-growl-resource://", r.Identifier>>
      [] mode = IconModeFileURL ->
            IF r.SourcePath # <<>>
            THEN <<"file:///">> \o ReplaceAll(r.SourcePath, "\\", "/")
            ELSE toDataURL(r)
      [] mode = IconModeHttpURL ->
            IF r.SourcePath # <<>> THEN r.SourcePath ELSE toDataURL(r)
      [] OTHER -> toDataURL(r)

----------------------------------------------------------------------------
(* Packet Encoder. *)

\* the Identifier/Length blocks both encoders append in Binary mode
RECURSIVE ResourceBlocks(_)
ResourceBlocks(resources) ==
    IF resources = <<>> THEN <<>>
    ELSE LET res == Heap[Head(resources)]
         IN  <<<<"Identifier: ", res.Identifier>>,
               <<"Length: ", ToString(Len(res.Data))>>,
               BlankLine>> \o ResourceBlocks(Tail(resources))

\* the loop of Register with the seenIDs test of line 57 left out
RECURSIVE RegisterTypesUnseen(_, _, _, _)
RegisterTypesUnseen(mode, notifications, i, st) ==
    IF i > Len(notifications) THEN st
    ELSE LET notif == notifications[i]
             name == <<<<"Notification-Name: ", notif.Name>>>>
             display == IF notif.DisplayName # ""
                        THEN <<<<"Notification-Display-Name: ", notif.DisplayName>>>>
                        ELSE <<>>
             enabled == <<<<"Notification-Enabled: ",
                            IF notif.Enabled THEN "True" ELSE "False">>>>
             icon == IF notif.Icon # 0
                     THEN <<<<"Notification-Icon: ">>
                                \o getReference(Heap[notif.Icon], mode)>>
                     ELSE <<>>
             add == notif.Icon # 0 /\ mode = IconModeBinary
         IN  RegisterTypesUnseen(mode, notifications, i + 1,
                 [packet |-> st.packet \o name \o display \o enabled \o icon
                                 \o <<BlankLine>>,
                  resources |-> IF add THEN Append(st.resources, notif.Icon)
                                ELSE st.resources,
                  seenIDs |-> st.seenIDs])

\* the loop of Register over notifications[i..], st = [packet, resources, seenIDs]
RECURSIVE RegisterTypes(_, _, _, _)
RegisterTypes(mode, notifications, i, st) ==
    IF i > Len(notifications) THEN st
    ELSE LET notif == notifications[i]
             name == <<<<"Notification-Name: ", notif.Name>>>>
             display == IF notif.DisplayName # ""
                        THEN <<<<"Notification-Display-Name: ", notif.DisplayName>>>>
                        ELSE <<>>
             enabled == <<<<"Notification-Enabled: ",
                            IF notif.Enabled THEN "True" ELSE "False">>>>
             icon == IF notif.Icon # 0
                     THEN <<<<"Notification-Icon: ">>
                                \o getReference(Heap[notif.Icon], mode)>>
                     ELSE <<>>
             add == /\ notif.Icon # 0
                    /\ mode = IconModeBinary
                    /\ Heap[notif.Icon].Identifier \notin st.seenIDs
         IN  RegisterTypes(mode, notifications, i + 1,
                 [packet |-> st.packet \o name \o display \o enabled \o icon
                                 \o <<BlankLine>>,
                  resources |-> IF add THEN Append(st.resources, notif.Icon)
                                ELSE st.resources,
                  seenIDs |-> IF add
                              THEN st.seenIDs \cup {Heap[notif.Icon].Identifier}
                              ELSE st.seenIDs])

\* Register with line 39 counting the enabled notification types only
RegisterPacketCountingEnabled(c, notifications) ==
    LET head == <<<<"GNTP/", GNTPVersion, " REGISTER NONE">>,
                  <<"Application-Name: ", c.ApplicationName>>>>
        icon == IF c.ApplicationIcon # 0
                THEN <<<<"Application-Icon: ">>
                           \o getReference(Heap[c.ApplicationIcon], c.IconMode)>>
                ELSE <<>>
        add == c.ApplicationIcon # 0 /\ c.IconMode = IconModeBinary
        target == IF c.callbackURL # <<>>
                  THEN <<<<"Notification-Callback-Target: ">> \o c.callbackURL>>
                  ELSE <<>>
        count == <<<<"Notifications-Count: ", ToString(Cardinality({i \in 1..Len(notifications) :
                                                  notifications[i].Enabled}))>>,
                   BlankLine>>
        st == RegisterTypes(c.IconMode, notifications, 1,
                  [packet |-> head \o icon \o target \o count,
                   resources |-> IF add THEN <<c.ApplicationIcon>> ELSE <<>>,
                   seenIDs |-> IF add THEN {Heap[c.ApplicationIcon].Identifier}
                               ELSE {}])
    IN  [packet |-> st.packet \o (IF c.IconMode = IconModeBinary
                                  THEN ResourceBlocks(st.resources) ELSE <<>>),
         resources |-> st.resources]

\* Register, lines 15-76: the REGISTER packet and the resources to send raw
RegisterPacket(c, notifications) ==
    LET head == <<<<"GNTP/", GNTPVersion, " REGISTER NONE">>,
                  <<"Application-Name: ", c.ApplicationName>>>>
        icon == IF c.ApplicationIcon # 0
                THEN <<<<"Application-Icon: ">>
                           \o getReference(Heap[c.ApplicationIcon], c.IconMode)>>
                ELSE <<>>
        add == c.ApplicationIcon # 0 /\ c.IconMode = IconModeBinary
        target == IF c.callbackURL # <<>>
                  THEN <<<<"Notification-Callback-Target: ">> \o c.callbackURL>>
                  ELSE <<>>
        count == <<<<"Notifications-Count: ", ToString(Len(notifications))>>,
                   BlankLine>>
        st == RegisterTypes(c.IconMode, notifications, 1,
                  [packet |-> head \o icon \o target \o count,
                   resources |-> IF add THEN <<c.ApplicationIcon>> ELSE <<>>,
                   seenIDs |-> IF add THEN {Heap[c.ApplicationIcon].Identifier}
                               ELSE {}])
    IN  [packet |-> st.packet \o (IF c.IconMode = IconModeBinary
                                  THEN ResourceBlocks(st.resources) ELSE <<>>),
         resources |-> st.resources]

\* the notification identifier: the hex MD5 of "app:name:nanoseconds"
NotificationID(app, name, now) == <<"md5(", app, ":", name, ":", ToString(now), ")">>

\* NotifyWithOptions with the test of line 129 left out: the priority is always
\* written
NotifyPacketAlwaysPriority(c, notificationName, title, text, options, now) ==
    LET head == <<<<"GNTP/", GNTPVersion, " NOTIFY NONE">>,
                  <<"Application-Name: ", c.ApplicationName>>,
                  <<"Notification-Name: ", notificationName>>,
                  <<"Notification-ID: ">>
                      \o NotificationID(c.ApplicationName, notificationName, now),
                  <<"Notification-Title: ", title>>,
                  <<"Notification-Text: ", text>>>>
        sticky == IF options.Sticky THEN <<<<"Notification-Sticky: True">>>> ELSE <<>>
        priority == <<<<"Notification-Priority: ", ToString(options.Priority)>>>>
        icon == IF options.Icon # 0
                THEN <<<<"Notification-Icon: ">>
                           \o getReference(Heap[options.Icon], c.IconMode)>>
                ELSE <<>>
        resources == IF options.Icon # 0 /\ c.IconMode = IconModeBinary
                     THEN <<options.Icon>> ELSE <<>>
        callback ==
            IF c.callbackURL # <<>>
            THEN <<<<"Notification-Callback-Context: ", options.CallbackContext>>,
                   <<"Notification-Callback-Context-Type: string">>>>
                 \o (IF options.CallbackTarget # ""
                     THEN <<<<"Notification-Callback-Target: ", options.CallbackTarget>>>>
                     ELSE <<>>)
            ELSE <<>>
    IN  [packet |-> head \o sticky \o priority \o icon \o callback \o <<BlankLine>>
                        \o (IF c.IconMode = IconModeBinary
                            THEN ResourceBlocks(resources) ELSE <<>>),
         resources |-> resources]

\* NotifyWithOptions, lines 112-161: the NOTIFY packet and the resources to send raw
NotifyPacket(c, notificationName, title, text, options, now) ==
    LET head == <<<<"GNTP/", GNTPVersion, " NOTIFY NONE">>,
                  <<"Application-Name: ", c.ApplicationName>>,
                  <<"Notification-Name: ", notificationName>>,
                  <<"Notification-ID: ">>
                      \o NotificationID(c.ApplicationName, notificationName, now),
                  <<"Notification-Title: ", title>>,
                  <<"Notification-Text: ", text>>>>
        sticky == IF options.Sticky THEN <<<<"Notification-Sticky: True">>>> ELSE <<>>
        priority == IF options.Priority # 0
                    THEN <<<<"Notification-Priority: ", ToString(options.Priority)>>>>
                    ELSE <<>>
        icon == IF options.Icon # 0
                THEN <<<<"Notification-Icon: ">>
                           \o getReference(Heap[options.Icon], c.IconMode)>>
                ELSE <<>>
        resources == IF options.Icon # 0 /\ c.IconMode = IconModeBinary
                     THEN <<options.Icon>> ELSE <<>>
        callback ==
            IF c.callbackURL # <<>>
            THEN <<<<"Notification-Callback-Context: ", options.CallbackContext>>,
                   <<"Notification-Callback-Context-Type: string">>>>
                 \o (IF options.CallbackTarget # ""
                     THEN <<<<"Notification-Callback-Target: ", options.CallbackTarget>>>>
                     ELSE <<>>)
            ELSE <<>>
    IN  [packet |-> head \o sticky \o priority \o icon \o callback \o <<BlankLine>>
                        \o (IF c.IconMode = IconModeBinary
                            THEN ResourceBlocks(resources) ELSE <<>>),
         resources |-> resources]

----------------------------------------------------------------------------
(* Transport Session.                                                      *)
(*                                                                         *)
(* What the network and the peer do during one exchange is the record env: *)
(*   dial    whether net.DialTimeout succeeds                              *)
(*   wfail   which conn.Write call fails (0: none does)                    *)
(*   wpart   how many items of the failing buffer were sent before it      *)
(*           failed (at most all but the last)                             *)
(*   stream  the response the peer sends, as tokens                        *)
(*   ending  what follows the stream: the peer closes ("close"), resets    *)
(*           ("reset"), becomes unreachable until the kernel gives the      *)
(*           connection up ("lost"), or keeps the connection open and      *)
(*           sends nothing more ("silent")                                 *)
(***************************************************************************)

Endings == {"close", "reset", "lost", "silent"}

\* io.EOF
EOF == <<"EOF">>

\* the texts of the errors of package net (the address prefix left out)
ErrRefused == <<"connect: ", "connection", " refused">>

ErrPipe == <<"write: broken pipe">>

ErrReset == <<"read: ", "connection", " reset by peer">>

ErrTimedOut == <<"read: ", "connection", " timed out">>

ErrDeadline == <<"i/o timeout">>

\* a read that can never return: no data, no close, no deadline
Blocked == <<"(blocked)">>

\* the error of a read that finds no more bytes of the stream
ReadError(ending, deadline) ==
    CASE ending = "close" -> EOF
      [] ending = "reset" -> ErrReset
      [] ending = "lost" -> ErrTimedOut
      [] OTHER -> IF deadline THEN ErrDeadline ELSE Blocked

\* bufio.Reader.ReadString('\n') on the unread tokens buf: the line up to and
\* including the first "\n"; without one, what was read and the read's error
ReadString(buf, ending, deadline) ==
    LET nl == {i \in 1..Len(buf) : buf[i] = "\n"}
    IN  IF nl # {}
        THEN LET i == CHOOSE k \in nl : \A j \in nl : k <= j
             IN  [line |-> SubSeq(buf, 1, i), rest |-> SubSeq(buf, i + 1, Len(buf)),
                  err |-> Nil]
        ELSE [line |-> buf, rest |-> <<>>, err |-> ReadError(ending, deadline)]

\* the response loop taking only the bare "\n" for the blank line
RECURSIVE readLoopBareNewline(_, _, _, _)
readLoopBareNewline(buf, ending, deadline, response) ==
    LET r == ReadString(buf, ending, deadline)
    IN  IF r.err # Nil
        THEN IF r.err = Blocked
             THEN [response |-> response, err |-> Blocked, rest |-> r.rest]
             ELSE IF r.err = EOF
             THEN [response |-> response, err |-> Nil, rest |-> r.rest]
             ELSE IF Contains(r.err, "connection")
             THEN [response |-> response, err |-> Nil, rest |-> r.rest]
             ELSE [response |-> response,
                   err |-> <<"failed to read response: ">> \o r.err, rest |-> r.rest]
        ELSE IF r.line = <<"\n">>
             THEN [response |-> response \o r.line, err |-> Nil, rest |-> r.rest]
             ELSE readLoopBareNewline(r.rest, ending, deadline, response \o r.line)

\* the response loop of sendPacket (lines 253-271) and of sendPacketWithResources
\* (lines 323-339): response is the text accumulated so far
RECURSIVE readLoop(_, _, _, _)
readLoop(buf, ending, deadline, response) ==
    LET r == ReadString(buf, ending, deadline)
    IN  IF r.err # Nil
        THEN IF r.err = Blocked
             THEN [response |-> response, err |-> Blocked, rest |-> r.rest]
             ELSE IF r.err = EOF
             THEN [response |-> response, err |-> Nil, rest |-> r.rest]
             ELSE IF Contains(r.err, "connection")
             THEN [response |-> response, err |-> Nil, rest |-> r.rest]
             ELSE [response |-> response,
                   err |-> <<"failed to read response: ">> \o r.err, rest |-> r.rest]
        ELSE IF TrimSpace(r.line) = <<>>
             THEN [response |-> response \o r.line, err |-> Nil, rest |-> r.rest]
             ELSE readLoop(r.rest, ending, deadline, response \o r.line)

\* the check looking for the marker at the start of the response only
checkResponseStatusOnly(responseStr) ==
    IF responseStr # <<>> /\ Head(responseStr) = "-ERROR"
    THEN [text |-> <<>>, err |-> <<"server error: ">> \o responseStr]
    ELSE [text |-> responseStr, err |-> Nil]

\* the check of the response for the error marker and the values returned
checkResponse(responseStr) ==
    IF Contains(responseStr, "-ERROR")
    THEN [text |-> <<>>, err |-> <<"server error: ">> \o responseStr]
    ELSE [text |-> responseStr, err |-> Nil]

\* a raw byte on the wire
Raw(b) == <<"byte", ToString(b)>>

RawBytes(data) == [i \in 1..Len(data) |-> Raw(data[i])]

\* the loop over the resources with the write of CRLF (lines 309-311) left out
RECURSIVE ResourceWritesUnterminated(_)
ResourceWritesUnterminated(resources) ==
    IF resources = <<>> THEN <<>>
    ELSE <<[buf |-> RawBytes(Heap[Head(resources)].Data), what |-> "resource data"]>>
             \o ResourceWritesUnterminated(Tail(resources))

\* the conn.Write calls of sendPacketWithResources after the packet's, in order
RECURSIVE ResourceWrites(_)
ResourceWrites(resources) ==
    IF resources = <<>> THEN <<>>
    ELSE <<[buf |-> RawBytes(Heap[Head(resources)].Data), what |-> "resource data"],
           [buf |-> <<BlankLine>>, what |-> "resource CRLF"]>>
             \o ResourceWrites(Tail(resources))

\* what a failing conn.Write(buf) sent: wpart items, never the whole buffer
Sent(buf, wpart) == SubSeq(buf, 1, IF wpart < Len(buf) THEN wpart ELSE Len(buf) - 1)

\* the conn.Write calls in order until one fails: what reached the wire, and the
\* error of the call that failed
writeAll(writes, env) ==
    IF env.wfail = 0 \/ env.wfail > Len(writes)
    THEN [wire |-> Flatten([i \in 1..Len(writes) |-> writes[i].buf]), err |-> Nil]
    ELSE [wire |-> Flatten([i \in 1..(env.wfail - 1) |-> writes[i].buf])
                       \o Sent(writes[env.wfail].buf, env.wpart),
          err |-> <<"failed to send ", writes[env.wfail].what, ": ">> \o ErrPipe]

\* the exchange after net.DialTimeout: id is the new connection, setDeadline
\* whether conn.SetDeadline was called, closeOn the exits that close the connection
exchange(c, writes, env, id, setDeadline, closeOn) ==
    LET address == <<c.Host, ":", ToString(c.Port)>>
        none == [dials |-> 1, conn |-> 0, address |-> address, deadline |-> FALSE,
                 wire |-> <<>>, closed |-> TRUE, returned |-> TRUE,
                 stream |-> env.stream, ending |-> env.ending, unread |-> env.stream,
                 response |-> <<>>, text |-> <<>>, err |-> Nil, exit |-> "connect"]
    IN  IF ~env.dial
        THEN [none EXCEPT !.err = <<"failed to connect to ">> \o address \o <<": ">>
                                       \o ErrRefused]
        ELSE LET w == writeAll(writes, env)
                 conn == [none EXCEPT !.conn = id, !.deadline = setDeadline,
                                      !.wire = w.wire]
             IN  IF w.err # Nil
                 THEN [conn EXCEPT !.err = w.err, !.exit = "write",
                                   !.closed = ("write" \in closeOn)]
                 ELSE LET r == readLoop(env.stream, env.ending, setDeadline, <<>>)
                          v == checkResponse(r.response)
                      IN  IF r.err = Blocked
                          THEN [conn EXCEPT !.err = Blocked, !.exit = "blocked",
                                            !.unread = r.rest, !.response = r.response,
                                            !.closed = FALSE, !.returned = FALSE]
                          ELSE IF r.err # Nil
                          THEN [conn EXCEPT !.err = r.err, !.exit = "read",
                                            !.unread = r.rest, !.response = r.response,
                                            !.closed = ("read" \in closeOn)]
                          ELSE [conn EXCEPT !.err = v.err, !.text = v.text,
                                            !.exit = IF v.err = Nil THEN "ok"
                                                     ELSE "validate",
                                            !.unread = r.rest, !.response = r.response,
                                            !.closed = (IF v.err = Nil
                                                        THEN "ok" \in closeOn
                                                        ELSE "validate" \in closeOn)]

\* the exits of a transport function after its defer conn.Close()
AllExits == {"write", "read", "validate", "ok"}

\* sendPacket with the conn.SetDeadline of line 238 left out
sendPacketNoDeadline(c, packet, env, id) ==
    exchange(c, <<[buf |-> packet, what |-> "packet"]>>, env, id, FALSE, AllExits)

\* sendPacket closing the connection by hand on the other exits instead of the
\* defer of line 235: a failed read leaves it open
sendPacketNoDefer(c, packet, env, id) ==
    exchange(c, <<[buf |-> packet, what |-> "packet"]>>, env, id, TRUE,
             AllExits \ {"read"})

\* sendPacket dialling a second time when net.DialTimeout fails
sendPacketRedial(c, packet, env, id) ==
    [exchange(c, <<[buf |-> packet, what |-> "packet"]>>, env, id, TRUE, AllExits)
         EXCEPT !.dials = IF env.dial THEN 1 ELSE 2]

\* Client.sendPacket
sendPacket(c, packet, env, id) ==
    exchange(c, <<[buf |-> packet, what |-> "packet"]>>, env, id, TRUE, AllExits)

\* Client.sendPacketWithResources
sendPacketWithResources(c, packet, resources, env, id) ==
    exchange(c, <<[buf |-> packet, what |-> "packet"]>> \o ResourceWrites(resources)
                    \o <<[buf |-> <<BlankLine>>, what |-> "termination"]>>,
             env, id, TRUE, AllExits)

----------------------------------------------------------------------------
(* The client and its API.  Each API function is an operator from the      *)
(* client c (its fields as a record), the arguments and the environment to *)
(* the record of the call: the exchanges it made (xs), the error it        *)
(* returned (err), the value it left in c.registered and whether it        *)
(* returned at all.                                                        *)

Client ==
    [Host |-> Host, Port |-> Port, ApplicationName |-> ApplicationName,
     ApplicationIcon |-> ApplicationIcon, IconMode |-> IconMode,
     registered |-> registered, callbackListener |-> callbackListener,
     callbackHandler |-> callbackHandler, callbackURL |-> callbackURL]

\* NewNotifyOptions
NewNotifyOptions ==
    [Sticky |-> FALSE, Priority |-> 0, Icon |-> 0, CallbackContext |-> "",
     CallbackTarget |-> ""]

\* WithPriority with the upper test of lines 411-413 left out
WithPriorityFloorOnly(no, priority) ==
    [no EXCEPT !.Priority = IF priority < -2 THEN -2 ELSE priority]

\* NotifyOptions.WithPriority
WithPriority(no, priority) ==
    [no EXCEPT !.Priority = IF priority < -2 THEN -2
                            ELSE IF priority > 2 THEN 2 ELSE priority]

\* NewNotificationType
NewNotificationType(name) ==
    [Name |-> name, DisplayName |-> "", Enabled |-> TRUE, Icon |-> 0]

\* the record of one exchange: the packet built, the resources listed for raw
\* transmission, and what the transport did with them
Exchange(op, p, x) == [op |-> op, packet |-> p.packet, resources |-> p.resources, x |-> x]

\* the record of an API call
CallRecord(op, c, notifications, name, options, xs, err, reg, returned) ==
    [op |-> op, pre |-> c, notifications |-> notifications, name |-> name,
     options |-> options, xs |-> xs, err |-> err, registered |-> reg,
     returned |-> returned]

\* the record of an API function that makes no exchange
Setter(op) ==
    CallRecord(op, Client, <<>>, "", NewNotifyOptions, <<>>, Nil, registered, TRUE)

NoCall == Setter("none")

\* Register with lines 93-95 left out: registered is set whatever the transport
\* returned
RegisterCallIgnoringError(c, notifications, env, id) ==
    LET p == RegisterPacket(c, notifications)
        x == IF c.IconMode = IconModeBinary
             THEN sendPacketWithResources(c, p.packet, p.resources, env, id)
             ELSE sendPacket(c, p.packet, env, id)
    IN  CallRecord("Register", c, notifications, "", NewNotifyOptions,
                   <<Exchange("REGISTER", p, x)>>, x.err,
                   IF x.returned THEN TRUE ELSE c.registered, x.returned)

\* Register with the test of the icon mode at line 87 left out: every packet goes
\* through sendPacketWithResources
RegisterCallWithResources(c, notifications, env, id) ==
    LET p == RegisterPacket(c, notifications)
        x == sendPacketWithResources(c, p.packet, p.resources, env, id)
    IN  CallRecord("Register", c, notifications, "", NewNotifyOptions,
                   <<Exchange("REGISTER", p, x)>>, x.err,
                   IF x.returned /\ x.err = Nil THEN TRUE ELSE c.registered,
                   x.returned)

\* Client.Register
RegisterCall(c, notifications, env, id) ==
    LET p == RegisterPacket(c, notifications)
        x == IF c.IconMode = IconModeBinary
             THEN sendPacketWithResources(c, p.packet, p.resources, env, id)
             ELSE sendPacket(c, p.packet, env, id)
    IN  CallRecord("Register", c, notifications, "", NewNotifyOptions,
                   <<Exchange("REGISTER", p, x)>>, x.err,
                   IF x.returned /\ x.err = Nil THEN TRUE ELSE c.registered,
                   x.returned)

ErrNotRegistered == <<"must call Register() before Notify()">>

\* NotifyWithOptions as it would be if a failed exchange cleared the flag
NotifyCallResetting(c, notificationName, title, text, options, now, env, id) ==
    IF ~c.registered
    THEN CallRecord("Notify", c, <<>>, notificationName, options, <<>>,
                    ErrNotRegistered, c.registered, TRUE)
    ELSE LET p == NotifyPacket(c, notificationName, title, text, options, now)
             x == IF c.IconMode = IconModeBinary
                  THEN sendPacketWithResources(c, p.packet, p.resources, env, id)
                  ELSE sendPacket(c, p.packet, env, id)
         IN  CallRecord("Notify", c, <<>>, notificationName, options,
                        <<Exchange("NOTIFY", p, x)>>, x.err,
                        IF x.err = Nil THEN c.registered ELSE FALSE, x.returned)

\* NotifyWithOptions with lines 108-110 left out: no check of registered
NotifyCallUnchecked(c, notificationName, title, text, options, now, env, id) ==
    LET p == NotifyPacket(c, notificationName, title, text, options, now)
        x == IF c.IconMode = IconModeBinary
             THEN sendPacketWithResources(c, p.packet, p.resources, env, id)
             ELSE sendPacket(c, p.packet, env, id)
    IN  CallRecord("Notify", c, <<>>, notificationName, options,
                   <<Exchange("NOTIFY", p, x)>>, x.err, c.registered, x.returned)

\* Client.NotifyWithOptions
NotifyCall(c, notificationName, title, text, options, now, env, id) ==
    IF ~c.registered
    THEN CallRecord("Notify", c, <<>>, notificationName, options, <<>>,
                    ErrNotRegistered, c.registered, TRUE)
    ELSE LET p == NotifyPacket(c, notificationName, title, text, options, now)
             x == IF c.IconMode = IconModeBinary
                  THEN sendPacketWithResources(c, p.packet, p.resources, env, id)
                  ELSE sendPacket(c, p.packet, env, id)
         IN  CallRecord("Notify", c, <<>>, notificationName, options,
                        <<Exchange("NOTIFY", p, x)>>, x.err, c.registered, x.returned)

\* LoadResource(path): the Resource read from path, 0 when the file cannot be read
LoadResource(path) ==
    IF \E q \in 1..Len(Heap) : Heap[q].SourcePath = path
    THEN CHOOSE q \in 1..Len(Heap) :
             /\ Heap[q].SourcePath = path
             /\ \A k \in 1..Len(Heap) : Heap[k].SourcePath = path => q <= k
    ELSE 0

\* the connection a call dials after the exchanges xs it has already made
NextConn(n, xs) == n + Cardinality({i \in 1..Len(xs) : xs[i].x.conn # 0}) + 1

\* SendMessage, lines 207-218: the options of the notification
MessageOptions(msg, icon) ==
    LET o1 == WithPriority([NewNotifyOptions EXCEPT !.Sticky = msg.Sticky], msg.Priority)
        o2 == IF icon # 0 THEN [o1 EXCEPT !.Icon = icon] ELSE o1
    IN  IF msg.Callback # "" THEN [o2 EXCEPT !.CallbackTarget = msg.Callback] ELSE o2

\* SendMessage, lines 191-205: the registration of msg.Event on a client that is
\* not registered
MessageRegister(c, msg, icon, env, id) ==
    IF ~c.registered
    THEN RegisterCall(c,
             <<[NewNotificationType(msg.Event) EXCEPT
                    !.DisplayName = IF msg.DisplayName = "" THEN msg.Event
                                    ELSE msg.DisplayName,
                    !.Icon = icon]>>,
             env, id)
    ELSE CallRecord("Register", c, <<>>, "", NewNotifyOptions, <<>>, Nil, TRUE, TRUE)

\* SendMessage after its registration reg and its notification notify
MessageResult(c, msg, options, reg, notify) ==
    CallRecord("SendMessage", c, reg.notifications, msg.Event, options,
               reg.xs \o notify.xs, notify.err, notify.registered, notify.returned)

\* SendMessage with lines 202-204 left out: the notification is sent whatever
\* Register returned
MessageNotifyRegardless(c, msg, icon, now, env, n, reg) ==
    MessageResult(c, msg, MessageOptions(msg, icon), reg,
        NotifyCall([c EXCEPT !.registered = reg.registered], msg.Event, msg.Title,
                   msg.Text, MessageOptions(msg, icon), now, env,
                   NextConn(n, reg.xs)))

\* SendMessage, lines 191-220, after its registration reg
MessageNotify(c, msg, icon, now, env, n, reg) ==
    IF ~reg.returned \/ reg.err # Nil
    THEN CallRecord("SendMessage", c, reg.notifications, msg.Event, NewNotifyOptions,
                    reg.xs, reg.err, reg.registered, reg.returned)
    ELSE MessageResult(c, msg, MessageOptions(msg, icon), reg,
             NotifyCall([c EXCEPT !.registered = reg.registered], msg.Event, msg.Title,
                        msg.Text, MessageOptions(msg, icon), now, env,
                        NextConn(n, reg.xs)))

\* SendMessage after LoadResource: icon is 0 when there is none
MessageSend(c, msg, icon, now, env1, env2, n) ==
    IF msg.Icon # <<>> /\ icon = 0
    THEN CallRecord("SendMessage", c, <<>>, msg.Event, NewNotifyOptions, <<>>,
                    <<"failed to load icon: ", "failed to read file: ",
                      "open: no such file or directory">>,
                    c.registered, TRUE)
    ELSE MessageNotify(c, msg, icon, now, env2, n,
                       MessageRegister(c, msg, icon, env1, n + 1))

\* Client.SendMessage
SendMessageCall(c, msg, now, env1, env2, n) ==
    MessageSend(c, msg, IF msg.Icon # <<>> THEN LoadResource(msg.Icon) ELSE 0, now,
                env1, env2, n)

----------------------------------------------------------------------------
(* The inputs of the model. *)

Hosts == {"localhost", "growl.lan"}

Ports == {DefaultPort, DefaultPort + 1}

Handlers == {"onCallback"}

LocalIP == "127.0.0.1"

\* the port the system gives the k-th listening socket
EphemeralPort(k) == 49152 + k

TypesOver(names, displays, enableds, icons) ==
    [Name : names, DisplayName : displays, Enabled : enableds, Icon : icons]

ListsOver(types, n) == UNION {[1..k -> types] : k \in 0..n}

OptionsOver(stickies, priorities, icons, contexts, targets) ==
    [Sticky : stickies, Priority : priorities, Icon : icons,
     CallbackContext : contexts, CallbackTarget : targets]

MessagesOver(icons, displays, callbacks, stickies, priorities) ==
    [Event : {"alert"}, Title : {"title"}, Text : {"text"}, Icon : icons,
     Callback : callbacks, DisplayName : displays, Sticky : stickies,
     Priority : priorities]

\* every response of at most n tokens
Streams(n) == UNION {[1..k -> {"-OK", "-ERROR", "\r", "\n"}] : k \in 0..n}

DialFails ==
    {[dial |-> FALSE, wfail |-> 0, wpart |-> 0, stream |-> <<>>, ending |-> "close"]}

WriteFails(wfails, wparts) ==
    [dial : {TRUE}, wfail : wfails, wpart : wparts, stream : {<<>>}, ending : {"close"}]

Replies(streams, endings) ==
    [dial : {TRUE}, wfail : {0}, wpart : {0}, stream : streams, ending : endings]

----------------------------------------------------------------------------
(* The actions: one per API function. *)

\* Client.WithHost
WithHost(host) ==
    /\ Host' = host
    /\ last' = Setter("WithHost")
    /\ UNCHANGED <<Port, ApplicationName, ApplicationIcon, IconMode, registered,
                   callbackListener, callbackHandler, callbackURL, listeners, nconn,
                   open, everRegistered, loops, inbound>>

\* Client.WithPort
WithPort(port) ==
    /\ Port' = port
    /\ last' = Setter("WithPort")
    /\ UNCHANGED <<Host, ApplicationName, ApplicationIcon, IconMode, registered,
                   callbackListener, callbackHandler, callbackURL, listeners, nconn,
                   open, everRegistered, loops, inbound>>

\* Client.WithIconMode
WithIconMode(mode) ==
    /\ IconMode' = mode
    /\ last' = Setter("WithIconMode")
    /\ UNCHANGED <<Host, Port, ApplicationName, ApplicationIcon, registered,
                   callbackListener, callbackHandler, callbackURL, listeners, nconn,
                   open, everRegistered, loops, inbound>>

\* Client.WithIcon
WithIcon(icon) ==
    /\ ApplicationIcon' = icon
    /\ last' = Setter("WithIcon")
    /\ UNCHANGED <<Host, Port, ApplicationName, IconMode, registered,
                   callbackListener, callbackHandler, callbackURL, listeners, nconn,
                   open, everRegistered, loops, inbound>>

\* Client.WithCallback: listenOK is whether net.Listen succeeds
WithCallback(handler, listenOK) ==
    /\ callbackHandler' = handler
    /\ IF listenOK
       THEN /\ listeners' = Append(listeners, "open")
            /\ callbackListener' = Len(listeners) + 1
            /\ callbackURL' = <<"http://", LocalIP, ":",
                                ToString(EphemeralPort(Len(listeners) + 1))>>
            /\ loops' = Append(loops, [on |-> Len(listeners) + 1,
                                        state |-> "accepting"])
       ELSE UNCHANGED <<listeners, callbackListener, callbackURL, loops>>
    /\ last' = Setter("WithCallback")
    /\ UNCHANGED <<Host, Port, ApplicationName, ApplicationIcon, IconMode, registered,
                   nconn, open, everRegistered, inbound>>

\* Close that also closes the connections handleCallback has not read yet
CloseAborting ==
    /\ IF callbackListener # 0
       THEN listeners' = [listeners EXCEPT ![callbackListener] = "closed"]
       ELSE UNCHANGED listeners
    /\ inbound' = [i \in DOMAIN inbound |->
                       IF inbound[i].stage = "accepted"
                       THEN [inbound[i] EXCEPT !.stage = "dropped", !.closed = TRUE]
                       ELSE inbound[i]]
    /\ last' = Setter("Close")
    /\ UNCHANGED <<Host, Port, ApplicationName, ApplicationIcon, IconMode, registered,
                   callbackListener, callbackHandler, callbackURL, nconn, open,
                   everRegistered, loops>>

\* Client.Close
Close ==
    /\ IF callbackListener # 0
       THEN listeners' = [listeners EXCEPT ![callbackListener] = "closed"]
       ELSE UNCHANGED listeners
    /\ last' = Setter("Close")
    /\ UNCHANGED <<Host, Port, ApplicationName, ApplicationIcon, IconMode, registered,
                   callbackListener, callbackHandler, callbackURL, nconn, open,
                   everRegistered, loops, inbound>>

\* the effect of an API call r on the client and on the network
Apply(r) ==
    /\ registered' = r.registered
    /\ nconn' = nconn + Cardinality({i \in 1..Len(r.xs) : r.xs[i].x.conn # 0})
    /\ open' = open \cup {r.xs[i].x.conn : i \in {k \in 1..Len(r.xs) :
                              r.xs[k].x.conn # 0 /\ ~r.xs[k].x.closed}}
    /\ everRegistered' = (everRegistered \/ \E i \in 1..Len(r.xs) :
                              /\ r.xs[i].op = "REGISTER"
                              /\ r.xs[i].x.returned
                              /\ r.xs[i].x.err = Nil)
    /\ last' = r
    /\ UNCHANGED <<Host, Port, ApplicationName, ApplicationIcon, IconMode,
                   callbackListener, callbackHandler, callbackURL, listeners, loops,
                   inbound>>

\* whether the caller can make a call that dials up to n connections
Ready(n) == last.returned /\ nconn + n <= MaxConns

\* Client.Register
Register(lists, envs) ==
    /\ Ready(1)
    /\ \E notifications \in lists, env \in envs :
           Apply(RegisterCall(Client, notifications, env, nconn + 1))

\* Client.Notify and Client.NotifyWithOptions
NotifyWithOptions(names, optionses, nanos, envs) ==
    /\ Ready(1)
    /\ \E name \in names, options \in optionses, now \in nanos, env \in envs :
           Apply(NotifyCall(Client, name, "title", "text", options, now, env,
                            nconn + 1))

\* Client.SendMessage
SendMessage(msgs, nanos, envs1, envs2) ==
    /\ Ready(2)
    /\ \E msg \in msgs, now \in nanos, env1 \in envs1, env2 \in envs2 :
           Apply(SendMessageCall(Client, msg, now, env1, env2, nconn))

----------------------------------------------------------------------------
(* The life cycle of one client: from NewClient, any API call in any order. *)

\* NewClient
Init ==
    /\ Host = "localhost"
    /\ Port = DefaultPort
    /\ ApplicationName = "Go GNTP Example"
    /\ ApplicationIcon = 0
    /\ IconMode = IconModeDataURL
    /\ registered = FALSE
    /\ callbackListener = 0
    /\ callbackHandler = "nil"
    /\ callbackURL = <<>>
    /\ listeners = <<>>
    /\ nconn = 0
    /\ open = {}
    /\ everRegistered = FALSE
    /\ last = NoCall
    /\ loops = <<>>
    /\ inbound = <<>>

LifeLists == ListsOver(TypesOver({"alert"}, {"Alert"}, {TRUE}, {0}), MaxTypes)

LifeOptions == OptionsOver({FALSE}, {0}, {0, 1}, {""}, {""})

LifeMessages ==
    MessagesOver({<<>>, Heap[1].SourcePath, <<"missing.png">>}, {""}, {""}, {FALSE}, {0})

Nanos == {1762384000}

OkReply == <<"-OK", "\n", "\n">>

ErrorReply == <<"-ERROR", "\n", "\n">>

LifeEnvs ==
    DialFails \cup WriteFails({1}, {0}) \cup Replies({OkReply, ErrorReply}, {"close"})
        \cup Replies({<<>>}, {"silent"})

Next ==
    \/ \E host \in Hosts : WithHost(host)
    \/ \E port \in Ports : WithPort(port)
    \/ \E mode \in {IconModeBinary, IconModeDataURL} : WithIconMode(mode)
    \/ \E icon \in {0, 1} : WithIcon(icon)
    \/ \E handler \in Handlers, listenOK \in BOOLEAN :
           Len(listeners) < MaxListeners /\ WithCallback(handler, listenOK)
    \/ Close
    \/ Register(LifeLists, LifeEnvs)
    \/ NotifyWithOptions({"alert"}, LifeOptions, Nanos, LifeEnvs)
    \/ SendMessage(LifeMessages, Nanos, LifeEnvs, Replies({OkReply, ErrorReply}, {"close"}))

Spec == Init /\ [][Next]_vars

----------------------------------------------------------------------------
(* One call of a client as its setup left it: the setters, WithCallback    *)
(* and a successful Register have run, and no call was made since.         *)

Setup(modes, icons, callbacks, regs) ==
    /\ Host = "localhost"
    /\ Port = DefaultPort
    /\ ApplicationName = "Go GNTP Example"
    /\ ApplicationIcon \in icons
    /\ IconMode \in modes
    /\ registered \in regs
    /\ everRegistered = registered
    /\ \E cb \in callbacks :
           IF cb
           THEN /\ callbackListener = 1
                /\ callbackHandler = "onCallback"
                /\ callbackURL = <<"http://", LocalIP, ":", ToString(EphemeralPort(1))>>
                /\ listeners = <<"open">>
                /\ loops = <<[on |-> 1, state |-> "accepting"]>>
           ELSE /\ callbackListener = 0
                /\ callbackHandler = "nil"
                /\ callbackURL = <<>>
                /\ listeners = <<>>
                /\ loops = <<>>
    /\ nconn = (IF registered THEN 1 ELSE 0)
    /\ open = {}
    /\ last = NoCall
    /\ inbound = <<>>

\* the first Register call after the setup
RegisterOnce(lists, envs) == last.op = "none" /\ Register(lists, envs)

\* the first NotifyWithOptions call after the setup
NotifyOnce(names, optionses, nanos, envs) ==
    last.op = "none" /\ NotifyWithOptions(names, optionses, nanos, envs)

(* The response: every response of at most MaxResp tokens, with every ending, *)
(* on both transports.                                                        *)

ReadEnvs == Replies(Streams(MaxResp), Endings)

ReadInit == Setup({IconModeBinary, IconModeDataURL}, {0}, {FALSE}, BOOLEAN)

ReadNext ==
    \/ RegisterOnce({<<NewNotificationType("alert")>>}, ReadEnvs)
    \/ NotifyOnce({"alert"}, {NewNotifyOptions}, Nanos, ReadEnvs)

SpecRead == ReadInit /\ [][ReadNext]_vars

(* The wire: every icon mode, every sharing of icons between the application *)
(* and at most MaxTypes notification types, every write that can fail.       *)

\* the conn.Write calls of one exchange: all resources listed, each with its
\* line terminator, the packet and the termination
MaxWrites == 2 * Cardinality({Heap[q].Identifier : q \in 1..Len(Heap)}) + 2

WireLists == ListsOver(TypesOver({"alert"}, {"Alert"}, {TRUE}, ResourcePtrs), MaxTypes)

WireOptions == OptionsOver({FALSE}, {0}, ResourcePtrs, {""}, {""})

WireEnvs ==
    DialFails \cup WriteFails(1..MaxWrites, {0, 1}) \cup Replies({OkReply}, {"close"})

WireInit == Setup(IconModes, ResourcePtrs, BOOLEAN, {TRUE})

WireNext ==
    \/ RegisterOnce(WireLists, WireEnvs)
    \/ NotifyOnce({"alert"}, WireOptions, Nanos, WireEnvs)

SpecWire == WireInit /\ [][WireNext]_vars

----------------------------------------------------------------------------
(* Properties.  The vocabulary they share. *)

\* the exchanges of the last call
LastExchanges == {last.xs[i] : i \in 1..Len(last.xs)}

\* the step is a call of the API function op
IsCallOf(op) == last'.op = op /\ last' # last

\* the bytes one exchange writes when every write succeeds: the header block, and
\* in Binary mode each listed resource with its line terminator and the final
\* blank line
FullWire(mode, e) ==
    IF mode = IconModeBinary
    THEN e.packet
             \o Flatten([i \in 1..Len(e.resources) |->
                             RawBytes(Heap[e.resources[i]].Data) \o <<BlankLine>>])
             \o <<BlankLine>>
    ELSE e.packet

\* C1: on a client no Register call of which has returned success, a Notify or
\* NotifyWithOptions call returns the usage error, makes no exchange (dials no
\* connection, writes nothing) and leaves every field of the client, the
\* connections and the listening sockets as they were.
C1_NotifyBeforeRegister ==
    [][(~everRegistered /\ IsCallOf("Notify"))
          => /\ last'.err = ErrNotRegistered
             /\ last'.xs = <<>>
             /\ UNCHANGED <<clientVars, listeners, nconn, open>>]_vars

C1_Witness ==
    /\ last.op = "Notify"
    /\ ~everRegistered
    /\ nconn > 0
    /\ last.err = ErrNotRegistered

\* C2: registered is false on a new client; it becomes true only in a Register
\* call (SendMessage's included) whose exchange connected, wrote its whole
\* message and read a response free of the error marker; once true it stays
\* true whatever is called; a Register that returns an error leaves it as it was.
C2_RegisteredFlag ==
    /\ registered = FALSE
    /\ [][/\ registered => registered'
          /\ (~registered /\ registered')
                => /\ last'.op \in {"Register", "SendMessage"}
                   /\ \E e \in {last'.xs[i] : i \in 1..Len(last'.xs)} :
                          /\ e.op = "REGISTER"
                          /\ e.x.conn # 0
                          /\ e.x.wire = FullWire(last'.pre.IconMode, e)
                          /\ ~Contains(e.x.response, "-ERROR")
                          /\ e.x.err = Nil
          /\ (IsCallOf("Register") /\ last'.err # Nil) => registered' = registered
         ]_vars

C2_Witness ==
    /\ registered
    /\ last.op = "Register"
    /\ last.pre.registered
    /\ last.err # Nil
    /\ callbackListener # 0
    /\ listeners[callbackListener] = "closed"

----------------------------------------------------------------------------
(* The response, stated on the stream the peer sends. *)

SetMax(S) == CHOOSE x \in S : \A y \in S : y <= x

SetMin(S) == CHOOSE x \in S : \A y \in S : x <= y

\* the positions of the line terminators of a stream
Newlines(stream) == {i \in 1..Len(stream) : stream[i] = "\n"}

\* the ends of the blank lines of a stream: lines of white space only
BlankLineEnds(stream) ==
    {j \in Newlines(stream) :
        \A k \in (SetMax({0} \cup {i \in Newlines(stream) : i < j}) + 1)..j :
            IsSpace(stream[k])}

\* the end of the first blank line of a stream, 0 when it has none
FirstBlankEnd(stream) ==
    IF BlankLineEnds(stream) = {} THEN 0 ELSE SetMin(BlankLineEnds(stream))

\* the text a transport accumulates from a stream: its lines up to and including
\* the first blank line, and without a blank line its terminated lines
Accumulated(stream) ==
    SubSeq(stream, 1, IF FirstBlankEnd(stream) # 0 THEN FirstBlankEnd(stream)
                      ELSE SetMax({0} \cup Newlines(stream)))

\* the exchange connected, wrote its whole message and went on to read
ReadsResponse(e) == e.x.conn # 0 /\ e.x.wire = FullWire(last.pre.IconMode, e)

\* the result of an exchange is the validation of text
Validated(e, text) ==
    IF Contains(text, "-ERROR")
    THEN e.x.err = <<"server error: ">> \o text
    ELSE e.x.err = Nil /\ e.x.text = text

\* the call of the exchange e did not set registered
FlagNotSet(e) == e.op = "REGISTER" => registered = last.pre.registered

\* C3 as stated: whenever the response the peer sends contains -ERROR, the call
\* fails with the protocol error embedding the response with the marker, and
\* Register does not set registered.
C3_SentMarkerFails ==
    \A e \in LastExchanges :
        (ReadsResponse(e) /\ Contains(e.x.stream, "-ERROR"))
            => /\ e.x.err # Nil
               /\ Head(e.x.err) = "server error: "
               /\ Contains(Tail(e.x.err), "-ERROR")
               /\ FlagNotSet(e)

\* C3 amended: whenever the text accumulated from the response (its lines up to
\* and including the first blank line; without a blank line its terminated
\* lines, provided the read that found no more data returned end-of-stream or an
\* error mentioning "connection") contains -ERROR, the call fails with the
\* protocol error "server error: " followed by exactly the accumulated text,
\* and Register does not set registered.
C3_AccumulatedMarkerFails ==
    \A e \in LastExchanges :
        (/\ ReadsResponse(e)
         /\ Contains(Accumulated(e.x.stream), "-ERROR")
         /\ FirstBlankEnd(e.x.stream) = 0
                => \/ ReadError(e.x.ending, TRUE) = EOF
                   \/ Contains(ReadError(e.x.ending, TRUE), "connection"))
            => /\ e.x.err = <<"server error: ">> \o Accumulated(e.x.stream)
               /\ Contains(e.x.err, "-ERROR")
               /\ FlagNotSet(e)

C3_Witness ==
    /\ last.op = "Register"
    /\ ~registered
    /\ \E e \in LastExchanges :
           /\ e.x.stream = <<"-ERROR", "\n", "-OK">>
           /\ e.x.ending = "reset"
           /\ e.x.err = <<"server error: ", "-ERROR", "\n">>

\* C4: when the response the peer sends contains no error marker and has a
\* blank line, the transport returns success with exactly the lines up to and
\* including the first blank line, what follows it stays unread, and a Register
\* making that exchange sets registered.
C4_BlankLineEndsResponse ==
    \A e \in LastExchanges :
        (/\ ReadsResponse(e)
         /\ ~Contains(e.x.stream, "-ERROR")
         /\ FirstBlankEnd(e.x.stream) # 0)
            => /\ e.x.err = Nil
               /\ e.x.text = SubSeq(e.x.stream, 1, FirstBlankEnd(e.x.stream))
               /\ e.x.unread = SubSeq(e.x.stream, FirstBlankEnd(e.x.stream) + 1,
                                      Len(e.x.stream))
               /\ (e.op = "REGISTER" => registered)

C4_Witness ==
    /\ last.op = "Register"
    /\ ~last.pre.registered
    /\ registered
    /\ \E e \in LastExchanges :
           /\ e.x.stream = <<"\r", "\n", "-OK">>
           /\ e.x.text = <<"\r", "\n">>
           /\ e.x.unread = <<"-OK">>

\* C5 as stated: when the response ends without a blank line, end-of-stream or a
\* reset by the peer ends it without a read error and the accumulated text is
\* validated and returned; any other read failure makes the call fail with a
\* read error.
C5_OnlyCloseAndResetTolerated ==
    \A e \in LastExchanges :
        (ReadsResponse(e) /\ FirstBlankEnd(e.x.stream) = 0)
            => IF e.x.ending \in {"close", "reset"}
               THEN Validated(e, Accumulated(e.x.stream))
               ELSE /\ e.x.err # Nil
                    /\ Head(e.x.err) = "failed to read response: "

----------------------------------------------------------------------------
(* The packet and the wire in Binary mode, stated on the lines of the packet. *)

\* the positions of the Identifier lines of a packet
IdentifierLines(packet) ==
    {i \in 1..Len(packet) : packet[i] # <<>> /\ packet[i][1] = "Identifier: "}

\* the identifiers a packet refers to by x-growl-resource
Referenced(packet) ==
    {packet[i][3] : i \in {j \in 1..Len(packet) :
                              /\ Len(packet[j]) = 3
                              /\ packet[j][2] = "x-growl-resource://"}}

\* the Identifier lines of a packet that declare id
Declaring(packet, id) == {i \in IdentifierLines(packet) : packet[i][2] = id}

\* the identifiers of the resources at the pointers of a sequence, 0 is no resource
IdentifiersOf(ptrs) == {Heap[ptrs[i]].Identifier : i \in {k \in 1..Len(ptrs) : ptrs[k] # 0}}

\* the icons a call names, in the order the packet lists them: the application's
\* and those of the notification types for REGISTER, the options' for NOTIFY
IconsNamed(e) ==
    IF e.op = "REGISTER"
    THEN <<last.pre.ApplicationIcon>>
             \o [i \in 1..Len(last.notifications) |-> last.notifications[i].Icon]
    ELSE <<last.options.Icon>>

\* the first place of the sequence ptrs that names the identifier id
FirstNaming(ptrs, id) ==
    SetMin({k \in 1..Len(ptrs) : ptrs[k] # 0 /\ Heap[ptrs[k]].Identifier = id})

\* the byte count of the resource identified by id
ByteCount(id) == Len(Heap[CHOOSE q \in 1..Len(Heap) : Heap[q].Identifier = id].Data)

\* the bytes of the resource identified by id, as written
BytesOf(id) == RawBytes(Heap[CHOOSE q \in 1..Len(Heap) : Heap[q].Identifier = id].Data)

\* the Identifier lines of a packet in increasing order
RECURSIVE Ascending(_)
Ascending(S) == IF S = {} THEN <<>> ELSE <<SetMin(S)>> \o Ascending(S \ {SetMin(S)})

\* the bytes of the declared resources in the order of their Identifier lines,
\* each followed by the line terminator
DeclaredBodies(packet) ==
    Flatten([k \in 1..Cardinality(IdentifierLines(packet)) |->
                 BytesOf(packet[Ascending(IdentifierLines(packet))[k]][2])
                     \o <<BlankLine>>])

IsPrefix(s, t) == Len(s) <= Len(t) /\ s = SubSeq(t, 1, Len(s))

\* C6: in Binary mode the REGISTER packet has exactly one Identifier line,
\* followed by its Length line, for each distinct identifier among the icons of
\* the application and of the notification types, none for any other, and the
\* list of resources to send raw holds just these identifiers, each once.
C6_OneBlockPerIdentifier ==
    \A e \in LastExchanges :
        (e.op = "REGISTER" /\ last.pre.IconMode = IconModeBinary)
            => /\ \A id \in IdentifiersOf(IconsNamed(e)) :
                      /\ Cardinality(Declaring(e.packet, id)) = 1
                      /\ \A i \in Declaring(e.packet, id) :
                             /\ i < Len(e.packet)
                             /\ e.packet[i + 1] # <<>>
                             /\ e.packet[i + 1][1] = "Length: "
               /\ \A i \in IdentifierLines(e.packet) :
                      e.packet[i][2] \in IdentifiersOf(IconsNamed(e))
               /\ Cardinality({i \in 1..Len(e.packet) :
                                   e.packet[i] # <<>> /\ e.packet[i][1] = "Length: "})
                      = Cardinality(IdentifiersOf(IconsNamed(e)))
               /\ IdentifiersOf(e.resources) = IdentifiersOf(IconsNamed(e))
               /\ \A i, j \in 1..Len(e.resources) :
                      Heap[e.resources[i]].Identifier = Heap[e.resources[j]].Identifier
                          => i = j

C6_Witness ==
    /\ last.op = "Register"
    /\ last.pre.IconMode = IconModeBinary
    /\ last.pre.ApplicationIcon = 1
    /\ Len(last.notifications) = 2
    /\ last.notifications[1].Icon = 3
    /\ last.notifications[2].Icon = 1
    /\ \E e \in LastExchanges : Len(e.resources) = 1 /\ e.x.conn # 0

\* C7: in Binary mode every identifier a REGISTER or NOTIFY packet refers to by
\* x-growl-resource has exactly one Identifier line in that packet, followed by
\* the Length line with the byte count of the resource; the Identifier lines
\* stand in the order in which the call first names the identifiers (application
\* icon, then notification types in the caller's order); and what is written
\* after the packet is the bytes of the resources in the order of their
\* Identifier lines, each immediately followed by the line terminator.
C7_BlocksAndBodiesInOrder ==
    \A e \in LastExchanges :
        last.pre.IconMode = IconModeBinary
            => /\ Referenced(e.packet) = IdentifiersOf(IconsNamed(e))
               /\ \A id \in Referenced(e.packet) :
                      /\ Cardinality(Declaring(e.packet, id)) = 1
                      /\ \A i \in Declaring(e.packet, id) :
                             /\ i < Len(e.packet)
                             /\ e.packet[i + 1] = <<"Length: ", ToString(ByteCount(id))>>
               /\ \A i, j \in IdentifierLines(e.packet) :
                      i < j => FirstNaming(IconsNamed(e), e.packet[i][2])
                                   < FirstNaming(IconsNamed(e), e.packet[j][2])
               /\ e.x.exit \notin {"connect", "write"}
                      => IsPrefix(e.packet \o DeclaredBodies(e.packet), e.x.wire)
               /\ e.x.exit = "write"
                      => IsPrefix(e.x.wire, e.packet \o DeclaredBodies(e.packet)
                                                \o <<BlankLine>>)

C7_Witness ==
    /\ last.op = "Register"
    /\ last.pre.IconMode = IconModeBinary
    /\ last.pre.ApplicationIcon = 2
    /\ Len(last.notifications) = 2
    /\ last.notifications[1].Icon = 1
    /\ last.notifications[2].Icon = 2
    /\ \E e \in LastExchanges :
           /\ e.x.exit = "ok"
           /\ e.resources = <<2, 1>>
           /\ SubSeq(e.x.wire, Len(e.packet) + 1, Len(e.x.wire))
                  = <<Raw(255), Raw(216), BlankLine,
                      Raw(137), Raw(80), Raw(78), Raw(71), BlankLine, BlankLine>>

\* C8 as stated: when the list of resources to send raw is not empty, what is
\* written is the packet, then the bytes of each resource and the line
\* terminator, then one final blank-line terminator; when the list is empty, in
\* any icon mode, what is written is exactly the packet.
C8_NoTerminatorWithoutResources ==
    \A e \in LastExchanges :
        e.x.exit \notin {"connect", "write"}
            => IF e.resources # <<>>
               THEN e.x.wire = e.packet
                        \o Flatten([i \in 1..Len(e.resources) |->
                                        RawBytes(Heap[e.resources[i]].Data)
                                            \o <<BlankLine>>])
                        \o <<BlankLine>>
               ELSE e.x.wire = e.packet

----------------------------------------------------------------------------
(* The connections of the calls. *)

\* the exchanges of the last call that got a connection
Connected == {i \in 1..Len(last.xs) : last.xs[i].x.conn # 0}

\* the last call was a Register, or a Notify that got past its precondition
PastPrecondition ==
    \/ last.op = "Register"
    \/ last.op = "Notify" /\ last.pre.registered

\* C9: a Register or Notify call that gets past its precondition dials exactly
\* once; the connection it gets is a new one, never one of an earlier call; on
\* every exit (success, write error, read error, protocol error, deadline
\* expiry) that connection is closed when the call returns, and after a failed
\* dial there is none; no connection is open after its call has returned.
C9_OneConnectionClosedOnReturn ==
    /\ last.returned => open = {}
    /\ PastPrecondition => Len(last.xs) = 1
    /\ \A i \in 1..Len(last.xs) :
           /\ last.xs[i].x.dials = 1
           /\ last.xs[i].x.exit = "connect" <=> last.xs[i].x.conn = 0
           /\ i \in Connected
                  => /\ last.xs[i].x.closed
                     /\ last.xs[i].x.conn > nconn - Cardinality(Connected)
                     /\ last.xs[i].x.conn <= nconn
                     /\ \A j \in Connected : last.xs[j].x.conn = last.xs[i].x.conn
                                                 => i = j

C9_Witness ==
    /\ last.op = "Notify"
    /\ nconn = 3
    /\ last.returned
    /\ Len(last.xs) = 1
    /\ last.xs[1].x.conn = 3
    /\ last.xs[1].x.ending = "silent"
    /\ last.xs[1].x.exit = "read"
    /\ last.xs[1].x.err = <<"failed to read response: ">> \o ErrDeadline
    /\ last.xs[1].x.closed

----------------------------------------------------------------------------
(* The errors of the outbound operations. *)

\* the phases an error names by the text it starts with
PhasesNamed(err) ==
    {ph \in {"connect", "write", "read", "validate"} :
        /\ err # <<>>
        /\ Head(err) = (CASE ph = "connect" -> "failed to connect to "
                          [] ph = "write" -> "failed to send "
                          [] ph = "read" -> "failed to read response: "
                          [] OTHER -> "server error: ")}

\* s occurs in t as a contiguous part
IsInfix(s, t) == \E i \in 0..(Len(t) - Len(s)) : SubSeq(t, i + 1, i + Len(s)) = s

\* C11 as stated: an exchange either returns a response, or fails with an error
\* that names exactly one phase (connect, write, read, validate) and contains
\* the response text already read from the peer when it failed.
C11_ErrorNamesPhaseWithResponse ==
    \A e \in LastExchanges :
        \/ e.x.err = Nil
        \/ /\ Cardinality(PhasesNamed(e.x.err)) = 1
           /\ IsInfix(e.x.response, e.x.err)

----------------------------------------------------------------------------
(* The icon modes other than Binary. *)

\* the Length lines of a packet
LengthLines(packet) ==
    {i \in 1..Len(packet) : packet[i] # <<>> /\ packet[i][1] = "Length: "}

\* the raw resource bytes among what was written
RawWritten(wire) == {i \in 1..Len(wire) : wire[i] # <<>> /\ wire[i][1] = "byte"}

\* C12: in the FileURL, DataURL, HttpURL and Auto modes, whatever icons the
\* application, the notification types or the notify options carry, the list of
\* resources to send raw is empty, the packet has no Identifier and no Length
\* line, and what is written is the packet alone: no resource bytes and no
\* terminator after it.
C12_OnlyBinarySendsResources ==
    \A e \in LastExchanges :
        last.pre.IconMode # IconModeBinary
            => /\ e.resources = <<>>
               /\ IdentifierLines(e.packet) = {}
               /\ LengthLines(e.packet) = {}
               /\ Referenced(e.packet) = {}
               /\ RawWritten(e.x.wire) = {}
               /\ IsPrefix(e.x.wire, e.packet)
               /\ e.x.exit \notin {"connect", "write"} => e.x.wire = e.packet

C12_Witness ==
    /\ last.op = "Register"
    /\ last.pre.IconMode = IconModeFileURL
    /\ last.pre.ApplicationIcon = 2
    /\ Len(last.notifications) = 2
    /\ last.notifications[1].Icon = 1
    /\ last.notifications[2].Icon = 3
    /\ \E e \in LastExchanges :
           /\ e.x.exit = "ok"
           /\ e.x.wire = e.packet
           /\ \E i \in 1..Len(e.packet) :
                  e.packet[i] = <<"Notification-Icon: ", "file:///", "C:", "/",
                                  "icons", "/", "a.png">>

----------------------------------------------------------------------------
(* The callback headers. *)

\* the lines of a packet that start with the header name
HeaderLines(packet, header) ==
    {i \in 1..Len(packet) : packet[i] # <<>> /\ packet[i][1] = header}

\* a callback listener of the client is active: started and not closed
ListenerActive ==
    callbackListener # 0 /\ listeners[callbackListener] = "open"

\* C13 as stated: a REGISTER packet has the Notification-Callback-Target header,
\* carrying the callback URL of the listener, exactly when a callback listener
\* is active (started by WithCallback and not closed) when Register is called.
C13_TargetIffListenerActive ==
    \A e \in LastExchanges :
        e.op = "REGISTER"
            => IF ListenerActive
               THEN HeaderLines(e.packet, "Notification-Callback-Target: ")
                        = {i \in 1..Len(e.packet) :
                               e.packet[i] = <<"Notification-Callback-Target: ",
                                               "http://", LocalIP, ":",
                                               ToString(EphemeralPort(callbackListener))>>}
                    /\ Cardinality(HeaderLines(e.packet,
                                               "Notification-Callback-Target: ")) = 1
               ELSE HeaderLines(e.packet, "Notification-Callback-Target: ") = {}


\* C14 as stated: in a NOTIFY packet, when a callback listener is active the
\* Notification-Callback-Context header (also with an empty context) and
\* Notification-Callback-Context-Type: string are emitted once each, and
\* Notification-Callback-Target is emitted exactly when the options carry a
\* non-empty target, with that target; when no callback listener is active none
\* of the three headers is emitted.
C14_CallbackHeaders ==
    \A e \in LastExchanges :
        e.op = "NOTIFY"
            => IF ListenerActive
               THEN /\ \E i \in 1..Len(e.packet) :
                           /\ e.packet[i] = <<"Notification-Callback-Context: ",
                                              last.options.CallbackContext>>
                           /\ HeaderLines(e.packet, "Notification-Callback-Context: ")
                                  = {i}
                    /\ Cardinality({i \in 1..Len(e.packet) : e.packet[i] =
                           <<"Notification-Callback-Context-Type: string">>}) = 1
                    /\ IF last.options.CallbackTarget # ""
                       THEN \E i \in 1..Len(e.packet) :
                                /\ e.packet[i] = <<"Notification-Callback-Target: ",
                                                   last.options.CallbackTarget>>
                                /\ HeaderLines(e.packet,
                                               "Notification-Callback-Target: ") = {i}
                       ELSE HeaderLines(e.packet, "Notification-Callback-Target: ") = {}
               ELSE /\ HeaderLines(e.packet, "Notification-Callback-Context: ") = {}
                    /\ HeaderLines(e.packet,
                                   "Notification-Callback-Context-Type: string") = {}
                    /\ HeaderLines(e.packet, "Notification-Callback-Target: ") = {}

----------------------------------------------------------------------------
(* One notification with callback options, by NotifyWithOptions or by       *)
(* SendMessage, on a client with and without a callback listener.           *)

\* the first SendMessage call after the setup
SendMessageOnce(msgs, nanos, envs1, envs2) ==
    last.op = "none" /\ SendMessage(msgs, nanos, envs1, envs2)

CallbackOptions ==
    OptionsOver(BOOLEAN, {-5, 0, 1, 5}, {0}, {"", "order_id:12345"},
                {"", "https://example.com"})

CallbackMessages ==
    MessagesOver({<<>>}, {"", "Alert"}, {"", "https://example.com"}, BOOLEAN, {0, 1, 3})

MessageEnvs == DialFails \cup Replies({OkReply, ErrorReply}, {"close"})

MessageInit == Setup({IconModeBinary, IconModeDataURL}, {0}, BOOLEAN, BOOLEAN)

MessageNext ==
    \/ NotifyOnce({"alert"}, CallbackOptions, Nanos, MessageEnvs)
    \/ SendMessageOnce(CallbackMessages, Nanos, MessageEnvs, MessageEnvs)

SpecMessage == MessageInit /\ [][MessageNext]_vars

\* C15 as stated: a notification sent by SendMessage with a non-empty
\* Message.Callback, or by NotifyWithOptions with a callback target, carries that
\* URL: the NOTIFY packet has one Notification-Callback-Target header, with
\* exactly that URL.
C15_CallbackTargetSent ==
    \A e \in LastExchanges :
        (e.op = "NOTIFY" /\ last.options.CallbackTarget # "")
            => \E i \in 1..Len(e.packet) :
                   /\ e.packet[i] = <<"Notification-Callback-Target: ",
                                      last.options.CallbackTarget>>
                   /\ HeaderLines(e.packet, "Notification-Callback-Target: ") = {i}

----------------------------------------------------------------------------
(* Callback Listener.                                                      *)
(*                                                                         *)
(* loops holds one record per acceptCallbacks goroutine: the listener its  *)
(* Accept call is blocked on and whether the loop still runs.  inbound     *)
(* holds one record per accepted connection, served by its own             *)
(* handleCallback goroutine:                                               *)
(*   msg, rerr  what conn.Read returns: the bytes, or an error             *)
(*   later      the bytes of the peer that arrive after conn.Read returned *)
(*   reads      the conn.Read calls made                                   *)
(*   stage      "accepted" (blocked in conn.Read), "handler" (inside the   *)
(*              handler), "done" (returned), "dropped" (read error)        *)
(*   info       the CallbackInfo built, without its Timestamp              *)
(*   writes     the conn.Write calls made; sent, what reached the peer     *)
(*   calls      the handler invocations: the handler, its argument and the *)
(*              number of conn.Write calls made before it                  *)
(*   seen       history: the stages the earlier connections were in when   *)
(*              this one was accepted                                      *)

\* callback connections one client accepts
MaxInbound == 2

\* the acknowledgement of line 252
Acknowledgement == <<"GNTP/", GNTPVersion, " -OK NONE">> \o CRLF \o CRLF

\* strings.Split(response, CRLF), line the tokens of the current line so far
RECURSIVE SplitCRLF(_, _)
SplitCRLF(response, line) ==
    IF response = <<>> THEN <<line>>
    ELSE IF Len(response) >= 2 /\ response[1] = "\r" /\ response[2] = "\n"
    THEN <<line>> \o SplitCRLF(SubSeq(response, 3, Len(response)), <<>>)
    ELSE SplitCRLF(Tail(response), Append(line, Head(response)))

\* strings.HasPrefix(line, prefix), the prefix being one token
HasPrefix(line, prefix) == line # <<>> /\ Head(line) = prefix

\* strings.TrimPrefix(line, prefix)
TrimPrefix(line, prefix) == IF HasPrefix(line, prefix) THEN Tail(line) ELSE line

\* CallbackInfo{}: every string empty
NoInfo == [Type |-> <<>>, NotificationID |-> <<>>, Context |-> <<>>,
           ContextType |-> <<>>]

\* the loop of handleCallback over the lines (lines 239-249)
RECURSIVE parseLines(_, _)
parseLines(lines, info) ==
    IF lines = <<>> THEN info
    ELSE LET line == Head(lines)
         IN  parseLines(Tail(lines),
                 IF HasPrefix(line, "Notification-Callback-Result: ")
                 THEN [info EXCEPT !.Type =
                           TrimPrefix(line, "Notification-Callback-Result: ")]
                 ELSE IF HasPrefix(line, "Notification-ID: ")
                 THEN [info EXCEPT !.NotificationID =
                           TrimPrefix(line, "Notification-ID: ")]
                 ELSE IF HasPrefix(line, "Notification-Callback-Context: ")
                 THEN [info EXCEPT !.Context =
                           TrimPrefix(line, "Notification-Callback-Context: ")]
                 ELSE IF HasPrefix(line, "Notification-Callback-Context-Type: ")
                 THEN [info EXCEPT !.ContextType =
                           TrimPrefix(line, "Notification-Callback-Context-Type: ")]
                 ELSE info)

\* the connection Accept returns to the loop l: arrival is what its peer does
NewConn(l, listener, arrival, earlier) ==
    [loop |-> l, listener |-> listener, msg |-> arrival.msg, rerr |-> arrival.rerr,
     later |-> arrival.later, reads |-> 0,
     stage |-> "accepted", info |-> NoInfo, writes |-> 0, sent |-> <<>>,
     calls |-> <<>>, closed |-> FALSE,
     seen |-> {earlier[j].stage : j \in DOMAIN earlier}]

\* handleCallback calling the handler before it writes the acknowledgement
handleCallbackUnacknowledged(conn, handler, wok) ==
    IF conn.rerr
    THEN [conn EXCEPT !.reads = 1, !.stage = "dropped", !.closed = TRUE]
    ELSE LET info == parseLines(SplitCRLF(conn.msg, <<>>), NoInfo)
         IN  IF handler # "nil"
             THEN [conn EXCEPT !.reads = 1, !.info = info, !.stage = "handler",
                               !.calls = <<[handler |-> handler, info |-> info,
                                            writes |-> 0]>>]
             ELSE [conn EXCEPT !.reads = 1, !.info = info, !.stage = "done",
                               !.closed = TRUE]

\* handleCallback reading until the peer has sent everything
handleCallbackReadingAll(conn, handler, wok) ==
    IF conn.rerr
    THEN [conn EXCEPT !.reads = 1, !.stage = "dropped", !.closed = TRUE]
    ELSE LET info == parseLines(SplitCRLF(conn.msg \o conn.later, <<>>), NoInfo)
             sent == IF wok THEN Acknowledgement ELSE <<>>
             reads == IF conn.later = <<>> THEN 1 ELSE 2
         IN  IF handler # "nil"
             THEN [conn EXCEPT !.reads = reads, !.info = info, !.writes = 1,
                               !.sent = sent, !.stage = "handler",
                               !.calls = <<[handler |-> handler, info |-> info,
                                            writes |-> 1]>>]
             ELSE [conn EXCEPT !.reads = reads, !.info = info, !.writes = 1,
                               !.sent = sent, !.stage = "done", !.closed = TRUE]

\* handleCallback from conn.Read to the call of the handler (lines 223-256):
\* handler is c.callbackHandler, wok whether the conn.Write of line 252 succeeds
handleCallback(conn, handler, wok) ==
    IF conn.rerr
    THEN [conn EXCEPT !.reads = 1, !.stage = "dropped", !.closed = TRUE]
    ELSE LET info == parseLines(SplitCRLF(conn.msg, <<>>), NoInfo)
             sent == IF wok THEN Acknowledgement ELSE <<>>
         IN  IF handler # "nil"
             THEN [conn EXCEPT !.reads = 1, !.info = info, !.writes = 1,
                               !.sent = sent, !.stage = "handler",
                               !.calls = <<[handler |-> handler, info |-> info,
                                            writes |-> 1]>>]
             ELSE [conn EXCEPT !.reads = 1, !.info = info, !.writes = 1,
                               !.sent = sent, !.stage = "done", !.closed = TRUE]

\* the loop calling handleCallback without go (line 218): it accepts again only
\* when the connections it accepted have been served
AcceptingInline(l) ==
    /\ loops[l].state = "accepting"
    /\ \A i \in DOMAIN inbound :
           inbound[i].loop = l => inbound[i].stage \in {"done", "dropped"}

\* the loop returning when the read of a connection it accepted has failed
AcceptingUntilFailure(l) ==
    /\ loops[l].state = "accepting"
    /\ \A i \in DOMAIN inbound : inbound[i].loop = l => inbound[i].stage # "dropped"

\* the loop l is blocked in Accept on a listener
Accepting(l) == loops[l].state = "accepting"

\* acceptCallbacks, one turn of the loop l: Accept returns the connection of a
\* peer, a goroutine is started for it and the loop calls Accept again
AcceptCallbacks(l, arrivals) ==
    /\ l \in DOMAIN loops
    /\ Accepting(l)
    /\ listeners[loops[l].on] = "open"
    /\ Len(inbound) < MaxInbound
    /\ \E arrival \in arrivals :
           inbound' = Append(inbound, NewConn(l, loops[l].on, arrival, inbound))
    /\ \E on \in {loops[l].on, callbackListener} : loops' = [loops EXCEPT ![l].on = on]
    /\ UNCHANGED <<clientVars, listeners, nconn, open, everRegistered, last>>

\* acceptCallbacks, the end of the loop l: Accept fails on the closed listener
AcceptError(l) ==
    /\ l \in DOMAIN loops
    /\ Accepting(l)
    /\ listeners[loops[l].on] = "closed"
    /\ loops' = [loops EXCEPT ![l].state = "exited"]
    /\ UNCHANGED <<clientVars, listeners, nconn, open, everRegistered, last, inbound>>

\* handleCallback of the connection i, up to the call of the handler
HandleCallback(i, woks) ==
    /\ i \in DOMAIN inbound
    /\ inbound[i].stage = "accepted"
    /\ \E wok \in woks :
           inbound' = [inbound EXCEPT ![i] = handleCallback(@, callbackHandler, wok)]
    /\ UNCHANGED <<clientVars, listeners, nconn, open, everRegistered, last, loops>>

\* the handler of the connection i returns: handleCallback returns and its
\* deferred conn.Close() runs
HandlerReturn(i) ==
    /\ i \in DOMAIN inbound
    /\ inbound[i].stage = "handler"
    /\ inbound' = [inbound EXCEPT ![i].stage = "done", ![i].closed = TRUE]
    /\ UNCHANGED <<clientVars, listeners, nconn, open, everRegistered, last, loops>>

\* the lines of a message, each followed by CRLF
RECURSIVE JoinCRLF(_)
JoinCRLF(lines) ==
    IF lines = <<>> THEN <<>> ELSE Head(lines) \o CRLF \o JoinCRLF(Tail(lines))

\* what the peers of the callback connections send
CallbackMessagesIn ==
    {JoinCRLF(<<<<"GNTP/1.0 -CALLBACK NONE">>,
                <<"Notification-Callback-Result: ", "CLICK">>,
                <<"Notification-ID: ", "abc">>,
                <<"Notification-Callback-Context: ", "order_id:12345">>,
                <<"Notification-Callback-Context-Type: ", "string">>,
                <<>>>>),
     JoinCRLF(<<<<"Notification-Callback-Result: ", "CLICK">>,
                <<"X-Other: ", "Notification-ID: ", "zzz">>,
                <<"Notification-Callback-Result: ", "CLOSE">>,
                <<"Notification-ID: ", "abc">>,
                <<>>>>),
     JoinCRLF(<<<<"hello">>, <<>>>>),
     <<"Notification-Callback-Result: ", "TIMEOUT", "\n",
       "Notification-ID: ", "abc", "\n", "\n">>}

\* what conn.Read returns on a callback connection: a message, or an error
Arrivals ==
    {[msg |-> m, later |-> <<>>, rerr |-> FALSE] : m \in CallbackMessagesIn}
        \cup {[msg |-> <<>>, later |-> <<>>, rerr |-> TRUE]}

\* a client whose WithCallback(handler) has returned nil
Listening(handlers) ==
    /\ Host = "localhost"
    /\ Port = DefaultPort
    /\ ApplicationName = "Go GNTP Example"
    /\ ApplicationIcon = 0
    /\ IconMode = IconModeDataURL
    /\ registered = FALSE
    /\ everRegistered = FALSE
    /\ callbackListener = 1
    /\ callbackHandler \in handlers
    /\ callbackURL = <<"http://", LocalIP, ":", ToString(EphemeralPort(1))>>
    /\ listeners = <<"open">>
    /\ loops = <<[on |-> 1, state |-> "accepting"]>>
    /\ nconn = 0
    /\ open = {}
    /\ last = NoCall
    /\ inbound = <<>>

(* The messages: every message and read error, a handler or none, the       *)
(* acknowledgement written or not.                                          *)

CallbackInit == Listening(Handlers \cup {"nil"})

CallbackNext ==
    \/ \E l \in 1..MaxListeners : AcceptCallbacks(l, Arrivals)
    \/ \E l \in 1..MaxListeners : AcceptError(l)
    \/ \E i \in 1..MaxInbound : HandleCallback(i, BOOLEAN)
    \/ \E i \in 1..MaxInbound : HandlerReturn(i)
    \/ Close

SpecCallback == CallbackInit /\ [][CallbackNext]_vars

(* The goroutines: connections that are served and connections whose read   *)
(* fails, in every interleaving with the handlers and with Close.           *)

\* a connection that sends a callback and one whose read fails
AcceptArrivals ==
    {[msg |-> JoinCRLF(<<<<"Notification-Callback-Result: ", "CLICK">>,
                         <<"Notification-ID: ", "abc">>, <<>>>>),
      later |-> <<>>, rerr |-> FALSE],
     [msg |-> <<>>, later |-> <<>>, rerr |-> TRUE]}

AcceptInit == Listening(Handlers)

AcceptNext ==
    \/ \E l \in 1..MaxListeners : AcceptCallbacks(l, AcceptArrivals)
    \/ \E l \in 1..MaxListeners : AcceptError(l)
    \/ \E i \in 1..MaxInbound : HandleCallback(i, {TRUE})
    \/ \E i \in 1..MaxInbound : HandlerReturn(i)
    \/ Close

SpecAccept == AcceptInit /\ [][AcceptNext]_vars

(* The listener: a new client on which WithCallback and Close are called    *)
(* in any order, any number of times up to MaxStarts listening sockets,     *)
(* with the accept loops these calls start.                                 *)

\* listening sockets one client binds by calling WithCallback repeatedly
MaxStarts == 2

ListenerNext ==
    \/ \E handler \in Handlers, listenOK \in BOOLEAN :
           Len(listeners) < MaxStarts /\ WithCallback(handler, listenOK)
    \/ Close
    \/ \E l \in 1..MaxStarts : AcceptCallbacks(l, AcceptArrivals)
    \/ \E l \in 1..MaxStarts : AcceptError(l)
    \/ \E i \in 1..MaxInbound : HandleCallback(i, {TRUE})
    \/ \E i \in 1..MaxInbound : HandlerReturn(i)

SpecListener == Init /\ [][ListenerNext]_vars

----------------------------------------------------------------------------
(* The callback connections, stated on the message the peer sends. *)

\* the places of a message where a line starts: its start and after each CRLF
LineStartsOf(msg) ==
    {1} \cup {k + 2 : k \in {j \in 1..(Len(msg) - 1) :
                                 msg[j] = "\r" /\ msg[j + 1] = "\n"}}

\* the place after the line that starts at p: its CRLF, or the end of the message
LineEndOf(msg, p) ==
    SetMin({k \in p..(Len(msg) + 1) :
                \/ k = Len(msg) + 1
                \/ k < Len(msg) /\ msg[k] = "\r" /\ msg[k + 1] = "\n"})

\* the lines of a message that start with the header
LinesWith(msg, header) ==
    {p \in LineStartsOf(msg) : p <= Len(msg) /\ msg[p] = header}

\* the value of the header in a message: what follows it on the last line
\* starting with it, empty when there is no such line
HeaderValue(msg, header) ==
    IF LinesWith(msg, header) = {} THEN <<>>
    ELSE SubSeq(msg, SetMax(LinesWith(msg, header)) + 1,
                LineEndOf(msg, SetMax(LinesWith(msg, header))) - 1)

\* the CallbackInfo of a message
InfoOf(msg) ==
    [Type |-> HeaderValue(msg, "Notification-Callback-Result: "),
     NotificationID |-> HeaderValue(msg, "Notification-ID: "),
     Context |-> HeaderValue(msg, "Notification-Callback-Context: "),
     ContextType |-> HeaderValue(msg, "Notification-Callback-Context-Type: ")]

\* the connections whose read has returned a message
Served == {i \in 1..Len(inbound) : ~inbound[i].rerr /\ inbound[i].stage # "accepted"}

\* C16: for every accepted callback connection whose read succeeded, the
\* CallbackInfo built carries the values of the Notification-Callback-Result,
\* Notification-ID, Notification-Callback-Context and
\* Notification-Callback-Context-Type lines of the message (other lines
\* ignored); exactly one write, of the acknowledgement, is made to the peer;
\* the registered handler is invoked exactly once, with that CallbackInfo and
\* after that write; and the connection is closed when, and not before, the
\* handler has returned.
C16_CallbackHandled ==
    \A i \in Served :
        /\ inbound[i].info = InfoOf(inbound[i].msg)
        /\ inbound[i].writes = 1
        /\ inbound[i].sent \in {Acknowledgement, <<>>}
        /\ callbackHandler # "nil"
               => /\ inbound[i].calls = <<[handler |-> callbackHandler,
                                           info |-> InfoOf(inbound[i].msg),
                                           writes |-> 1]>>
                  /\ inbound[i].stage \in {"handler", "done"}
        /\ callbackHandler = "nil" => inbound[i].calls = <<>>
        /\ inbound[i].closed <=> inbound[i].stage = "done"

C16_Witness ==
    \E i \in Served :
        /\ Cardinality(LinesWith(inbound[i].msg, "Notification-Callback-Result: ")) = 2
        /\ inbound[i].stage = "done"
        /\ inbound[i].closed
        /\ inbound[i].sent = Acknowledgement
        /\ Len(inbound[i].calls) = 1
        /\ inbound[i].calls[1].info =
               [Type |-> <<"CLOSE">>, NotificationID |-> <<"abc">>,
                Context |-> <<>>, ContextType |-> <<>>]


\* a message that carries none of the recognized callback headers
Malformed(msg) ==
    \A header \in {"Notification-Callback-Result: ", "Notification-ID: ",
                   "Notification-Callback-Context: ",
                   "Notification-Callback-Context-Type: "} :
        LinesWith(msg, header) = {}

\* C17 as stated: on a callback connection whose read fails or whose message
\* carries none of the recognized headers, the connection is dropped: the
\* handler is not invoked for it and it is closed.
C17_MalformedDropped ==
    \A i \in 1..Len(inbound) :
        (/\ inbound[i].stage # "accepted"
         /\ inbound[i].rerr \/ Malformed(inbound[i].msg))
            => /\ inbound[i].calls = <<>>
               /\ inbound[i].closed


\* the connections whose handler is running
InHandler == {i \in DOMAIN inbound : inbound[i].stage = "handler"}

\* C18: the handler never blocks accepting: whatever handlers are running, and
\* however long, a loop on an open listener accepts the next connection, and
\* every accepted connection is read, acknowledged and dispatched on its own, so
\* that several handler invocations can be in progress at once.
C18_HandlerNeverBlocksAccept ==
    /\ \A l \in DOMAIN loops :
           (/\ loops[l].state = "accepting"
            /\ listeners[loops[l].on] = "open"
            /\ Len(inbound) < MaxInbound)
               => ENABLED AcceptCallbacks(l, AcceptArrivals)
    /\ \A i \in DOMAIN inbound :
           inbound[i].stage = "accepted" => ENABLED HandleCallback(i, {TRUE})
    /\ \A i \in InHandler : ENABLED HandlerReturn(i)

C18_Witness ==
    /\ Len(inbound) = 2
    /\ InHandler = {1, 2}
    /\ inbound[2].seen = {"handler"}
    /\ inbound[2].sent = Acknowledgement
    /\ Len(inbound[1].calls) = 1
    /\ Len(inbound[2].calls) = 1

\* the connections that failed: the read failed (also by the peer closing
\* early) or the message carries no recognized header
Failed ==
    {i \in DOMAIN inbound :
        /\ inbound[i].stage # "accepted"
        /\ inbound[i].rerr \/ Malformed(inbound[i].msg)}

\* C19: failures stay with their connection: after any callback connection has
\* failed, every listener that has not been closed still has its loop accepting,
\* the next connection is accepted, and the connections accepted are handled; a
\* loop ends only when its listener was closed.
C19_FailuresIsolated ==
    /\ \A l \in DOMAIN loops :
           loops[l].state = "exited" => listeners[loops[l].on] = "closed"
    /\ Failed # {}
           => /\ \A k \in DOMAIN listeners :
                     listeners[k] = "open"
                         => \E l \in DOMAIN loops :
                                /\ loops[l].on = k
                                /\ loops[l].state = "accepting"
                                /\ Len(inbound) < MaxInbound
                                       => ENABLED AcceptCallbacks(l, AcceptArrivals)
              /\ \A i \in DOMAIN inbound \ Failed :
                     /\ inbound[i].stage = "accepted"
                            => ENABLED HandleCallback(i, {TRUE})
                     /\ inbound[i].stage # "accepted" /\ callbackHandler # "nil"
                            => Len(inbound[i].calls) = 1

C19_Witness ==
    /\ Len(inbound) = 2
    /\ inbound[1].rerr
    /\ inbound[1].stage = "dropped"
    /\ inbound[2].seen = {"dropped"}
    /\ ~Malformed(inbound[2].msg)
    /\ inbound[2].stage = "done"
    /\ Len(inbound[2].calls) = 1
    /\ listeners[1] = "open"


\* the state of the callback listener of the client, as Close sees it
ListenerPhase ==
    IF callbackListener = 0 THEN "Idle"
    ELSE IF listeners[callbackListener] = "open" THEN "Accepting" ELSE "Closed"

\* C20 as stated: under any sequence of WithCallback and Close calls the
\* listener goes Idle, Accepting, Closed and starts once: the client creates at
\* most one listening socket and one accept loop, the listener never goes back
\* to Idle nor from Closed to Accepting, and after Close no listening socket
\* the client opened is still open.
C20_ListenerStartsOnce ==
    /\ [](Len(listeners) <= 1 /\ Len(loops) <= 1)
    /\ [][/\ ListenerPhase # "Idle" => ListenerPhase' # "Idle"
          /\ ListenerPhase = "Closed" => ListenerPhase' = "Closed"]_vars
    /\ [](last.op = "Close" => \A k \in DOMAIN listeners : listeners[k] = "closed")

\* the parts of C20 the code keeps: the listener never goes back to Idle, and
\* Close closes the listening socket the last WithCallback opened
C20_NeverIdleAgain ==
    /\ [][ListenerPhase # "Idle" => ListenerPhase' # "Idle"]_vars
    /\ [](last.op = "Close" /\ callbackListener # 0
              => listeners[callbackListener] = "closed")

\* two listening sockets of one client, the first still open after Close
C20_Leaked ==
    /\ Len(listeners) = 2
    /\ last.op = "Close"
    /\ listeners = <<"open", "closed">>
    /\ \E l \in DOMAIN loops : loops[l].on = 1 /\ loops[l].state = "accepting"


----------------------------------------------------------------------------
(* The goroutines under the scheduler of the Go runtime: a goroutine that   *)
(* can run is run. An accept loop whose Accept has failed returns, and the  *)
(* goroutine of an accepted connection whose peer has sent its bytes (or    *)
(* closed) gets through handleCallback up to the call of the handler. The   *)
(* handler itself may run forever.                                          *)

AcceptFairness ==
    /\ \A l \in 1..MaxListeners : WF_vars(AcceptError(l))
    /\ \A i \in 1..MaxInbound : WF_vars(HandleCallback(i, {TRUE}))

SpecAcceptLive == SpecAccept /\ AcceptFairness

\* the listener of the client has been closed
ListenerClosed == callbackListener # 0 /\ listeners[callbackListener] = "closed"

\* the connection i has been read, acknowledged and given to the handler
Dispatched(i) ==
    /\ inbound[i].stage \in {"handler", "done"}
    /\ inbound[i].sent = Acknowledgement
    /\ Len(inbound[i].calls) = 1
    /\ inbound[i].calls[1].info = InfoOf(inbound[i].msg)

\* C21: after Close on a client with a running listener the accept loop ends
\* (Accept fails and the loop returns) and accepts no connection any more, and
\* the connections accepted before Close are not aborted: no call closes them,
\* and each whose read succeeds is acknowledged and given to the handler.
C21_CloseEndsLoopOnly ==
    /\ \A l \in 1..MaxListeners :
           (l \in DOMAIN loops /\ ListenerClosed)
               ~> (l \in DOMAIN loops /\ loops[l].state = "exited")
    /\ [][ListenerClosed => Len(inbound') = Len(inbound)]_vars
    /\ [][\A i \in DOMAIN inbound :
              /\ ~inbound[i].rerr => inbound'[i].stage # "dropped"
              /\ last'.op = "Close" /\ last.op # "Close" => inbound'[i] = inbound[i]]_vars
    /\ \A i \in 1..MaxInbound :
           (/\ ListenerClosed
            /\ i \in DOMAIN inbound
            /\ inbound[i].stage = "accepted"
            /\ ~inbound[i].rerr) ~> (i \in DOMAIN inbound /\ Dispatched(i))

\* Close has returned and the loop has ended while a connection accepted before
\* is still to be read
C21_Witness ==
    /\ last.op = "Close"
    /\ ListenerClosed
    /\ \A l \in DOMAIN loops : loops[l].state = "exited"
    /\ \E i \in DOMAIN inbound :
           /\ inbound[i].stage = "accepted"
           /\ ~inbound[i].rerr
           /\ ~inbound[i].closed


----------------------------------------------------------------------------
(* The packets: every list of at most MaxTypes notification types, with and *)
(* without display name, enabled and disabled, with and without icon, and   *)
(* every NotifyOptions value with a priority in the range of WithPriority.  *)

PacketLists ==
    ListsOver(TypesOver({"alert", "warn"}, {"", "Alert"}, BOOLEAN, {0, 1}), MaxTypes)

PacketOptions == OptionsOver(BOOLEAN, {-2, -1, 0, 1, 2}, {0, 1}, {""}, {""})

PacketEnvs == DialFails \cup Replies({OkReply}, {"close"})

PacketInit == Setup({IconModeBinary, IconModeDataURL}, {0, 1}, {FALSE}, BOOLEAN)

PacketNext ==
    \/ RegisterOnce(PacketLists, PacketEnvs)
    \/ NotifyOnce({"alert"}, PacketOptions, Nanos, PacketEnvs)

SpecPacket == PacketInit /\ [][PacketNext]_vars

\* the places of the blank lines of a packet
BlankLines(packet) == {i \in 1..Len(packet) : packet[i] = BlankLine}

\* the place of the k-th blank line of a packet
NthBlank(packet, k) ==
    CHOOSE i \in BlankLines(packet) :
        Cardinality({j \in BlankLines(packet) : j < i}) = k - 1

\* the k-th block of a packet: the lines between blank line k - 1 and blank line k
BlockOf(packet, k) ==
    SubSeq(packet, IF k = 1 THEN 1 ELSE NthBlank(packet, k - 1) + 1,
           NthBlank(packet, k) - 1)

\* the block the spec gives a notification type under an icon mode
BlockFor(notif, mode) ==
    <<<<"Notification-Name: ", notif.Name>>>>
        \o (IF notif.DisplayName # ""
            THEN <<<<"Notification-Display-Name: ", notif.DisplayName>>>> ELSE <<>>)
        \o <<<<"Notification-Enabled: ", IF notif.Enabled THEN "True" ELSE "False">>>>
        \o (IF notif.Icon # 0
            THEN <<<<"Notification-Icon: ">> \o getReference(Heap[notif.Icon], mode)>>
            ELSE <<>>)

\* C22: the REGISTER packet of every list of notification types has one
\* Notifications-Count header, equal to the length of the list, in its preamble,
\* and after the preamble one block per type and no other, in the order of the
\* list: the name, the display name only if not empty, Notification-Enabled True
\* or False as the flag says, an icon reference only if an icon is set. When
\* neither the application nor a type has an icon, no line is an Identifier line.
C22_RegisterBlocks ==
    \A e \in LastExchanges :
        e.op = "REGISTER"
            => LET types == last.notifications
                   n == Len(types)
               IN  /\ Cardinality(BlankLines(e.packet)) >= n + 1
                   /\ HeaderLines(e.packet, "Notifications-Count: ")
                          = {i \in 1..(NthBlank(e.packet, 1) - 1) :
                                 e.packet[i] = <<"Notifications-Count: ", ToString(n)>>}
                   /\ Cardinality(HeaderLines(e.packet, "Notifications-Count: ")) = 1
                   /\ \A k \in 1..n :
                          BlockOf(e.packet, k + 1) = BlockFor(types[k], last.pre.IconMode)
                   /\ Cardinality(HeaderLines(e.packet, "Notification-Name: ")) = n
                   /\ \A i \in (NthBlank(e.packet, n + 1) + 1)..Len(e.packet) :
                          \/ e.packet[i] = BlankLine
                          \/ e.packet[i][1] \in {"Identifier: ", "Length: "}
                   /\ (last.pre.ApplicationIcon = 0 /\ \A k \in 1..n : types[k].Icon = 0)
                          => /\ IdentifierLines(e.packet) = {}
                             /\ Len(e.packet) = NthBlank(e.packet, n + 1)

\* a list of two types that differ in every field, in a packet that was sent
C22_Witness ==
    /\ last.op = "Register"
    /\ last.notifications =
           <<[Name |-> "warn", DisplayName |-> "", Enabled |-> FALSE, Icon |-> 1],
             [Name |-> "alert", DisplayName |-> "Alert", Enabled |-> TRUE, Icon |-> 0]>>
    /\ \E e \in LastExchanges :
           /\ e.op = "REGISTER"
           /\ HeaderLines(e.packet, "Notification-Display-Name: ") # {}
           /\ e.x.err = Nil


\* the sticky header lines of a packet
StickyLines(packet) ==
    {i \in 1..Len(packet) :
         /\ packet[i] # <<>>
         /\ packet[i][1] \in {"Notification-Sticky: True", "Notification-Sticky: "}}

\* C23: the NOTIFY packet of every NotifyOptions value has the Notification-Sticky
\* header (once, with True) exactly when Sticky is true, and the
\* Notification-Priority header (once, with the priority in decimal) exactly when
\* Priority is not zero; with Sticky false and Priority 0 it has neither line.
C23_StickyPriority ==
    \A e \in LastExchanges :
        e.op = "NOTIFY"
            => /\ StickyLines(e.packet)
                      = {i \in 1..Len(e.packet) :
                             last.options.Sticky
                                 /\ e.packet[i] = <<"Notification-Sticky: True">>}
               /\ Cardinality(StickyLines(e.packet))
                      = (IF last.options.Sticky THEN 1 ELSE 0)
               /\ HeaderLines(e.packet, "Notification-Priority: ")
                      = {i \in 1..Len(e.packet) :
                             /\ last.options.Priority # 0
                             /\ e.packet[i] = <<"Notification-Priority: ",
                                                ToString(last.options.Priority)>>}
               /\ Cardinality(HeaderLines(e.packet, "Notification-Priority: "))
                      = (IF last.options.Priority # 0 THEN 1 ELSE 0)

\* the scenario of the spec, sent: Sticky false and Priority 0
C23_Witness ==
    /\ last.op = "Notify"
    /\ ~last.options.Sticky
    /\ last.options.Priority = 0
    /\ \E e \in LastExchanges :
           /\ e.op = "NOTIFY"
           /\ e.x.err = Nil
           /\ StickyLines(e.packet) = {}
           /\ HeaderLines(e.packet, "Notification-Priority: ") = {}
           /\ HeaderLines(e.packet, "Notification-Title: ") # {}


----------------------------------------------------------------------------
(* The builder of NotifyOptions: from NewNotifyOptions(), the With calls in *)
(* any order with any argument.  The record of a call has the argument and  *)
(* the NotifyOptions before the call; options is the NotifyOptions after it. *)

\* priorities a caller passes reach from -MaxPriority to MaxPriority
MaxPriority == 5

\* the arguments of WithPriority: the small ones and two far from the range
Priorities == (-MaxPriority..MaxPriority) \cup {-2147483647, 2147483647}

OptionsCall(op, arg, no) ==
    [op |-> op, arg |-> arg, before |-> last.options, options |-> no,
     returned |-> TRUE]

\* the call of a method of NotifyOptions: it returns its receiver
OptionsStep(op, arg, no) ==
    /\ last' = OptionsCall(op, arg, no)
    /\ UNCHANGED <<clientVars, listeners, nconn, open, everRegistered, loops, inbound>>

\* NotifyOptions.WithSticky
OptionsWithSticky(sticky) ==
    OptionsStep("WithSticky", sticky, [last.options EXCEPT !.Sticky = sticky])

\* NotifyOptions.WithPriority
OptionsWithPriority(priority) ==
    OptionsStep("WithPriority", priority, WithPriority(last.options, priority))

\* NotifyOptions.WithIcon
OptionsWithIcon(icon) ==
    OptionsStep("WithIcon", icon, [last.options EXCEPT !.Icon = icon])

\* NotifyOptions.WithCallbackContext
OptionsWithCallbackContext(context) ==
    OptionsStep("WithCallbackContext", context,
                [last.options EXCEPT !.CallbackContext = context])

\* NotifyOptions.WithCallbackTarget
OptionsWithCallbackTarget(target) ==
    OptionsStep("WithCallbackTarget", target,
                [last.options EXCEPT !.CallbackTarget = target])

OptionsInit == Setup({IconModeDataURL}, {0}, {FALSE}, {FALSE})

OptionsNext ==
    \/ \E sticky \in BOOLEAN : OptionsWithSticky(sticky)
    \/ \E priority \in Priorities : OptionsWithPriority(priority)
    \/ \E icon \in {0, 1} : OptionsWithIcon(icon)
    \/ \E context \in {"", "order_id:12345"} : OptionsWithCallbackContext(context)
    \/ \E target \in {"", "https://example.com"} : OptionsWithCallbackTarget(target)

SpecOptions == OptionsInit /\ [][OptionsNext]_vars

\* C24: WithPriority stores 2 for every argument above 2, -2 for every argument
\* below -2 and the argument itself for every argument from -2 to 2; it changes
\* no other field of the NotifyOptions and rejects no argument.
C24_PriorityClamped ==
    last.op = "WithPriority"
        => /\ last.arg > 2 => last.options.Priority = 2
           /\ last.arg < -2 => last.options.Priority = -2
           /\ last.arg \in -2..2 => last.options.Priority = last.arg
           /\ last.options = [last.before EXCEPT !.Priority = last.options.Priority]
           /\ last.returned

\* WithPriority(-5) on sticky options whose priority was 2
C24_Witness ==
    /\ last.op = "WithPriority"
    /\ last.arg = -5
    /\ last.before.Priority = 2
    /\ last.before.Sticky
    /\ last.options.Priority = -2


----------------------------------------------------------------------------
(* The icon reference resolver on its own: a Resource as LoadResource or a  *)
(* caller made it, and getReference under every icon mode.                  *)

\* bytes of the data of a Resource
MaxData == 115

\* n bytes that start at s and go through the byte values
DataOf(n, s) == [i \in 1..n |-> (s + 37 * i) % 256]

Datas == {DataOf(n, s) : n \in 0..MaxData, s \in {0, 200}}

SourcePaths ==
    {<<>>, <<"C:", "\\", "icons", "\\", "a.png">>,
     <<"http://", "example.com", "/", "a.png">>}

Resources ==
    [Identifier : {"uuid-a"}, Data : Datas, SourcePath : SourcePaths,
     MimeType : {"image/png"}]

\* the record of a call on a Resource
ResourceCall(op, r, mode, reference) ==
    [op |-> op, resource |-> r, mode |-> mode, reference |-> reference,
     returned |-> TRUE]

\* Resource.getReference, called on the Resource at hand
GetReference(mode) ==
    /\ last.op = "Resource"
    /\ last' = ResourceCall("getReference", last.resource, mode,
                            getReference(last.resource, mode))
    /\ UNCHANGED <<clientVars, listeners, nconn, open, everRegistered, loops, inbound>>

\* a new client and a Resource
ResourceInit ==
    /\ Host = "localhost"
    /\ Port = DefaultPort
    /\ ApplicationName = "Go GNTP Example"
    /\ ApplicationIcon = 0
    /\ IconMode = IconModeDataURL
    /\ registered = FALSE
    /\ callbackListener = 0
    /\ callbackHandler = "nil"
    /\ callbackURL = <<>>
    /\ listeners = <<>>
    /\ nconn = 0
    /\ open = {}
    /\ everRegistered = FALSE
    /\ loops = <<>>
    /\ inbound = <<>>
    /\ \E r \in Resources : last = ResourceCall("Resource", r, IconModeDataURL, <<>>)

ResourceNext == \E mode \in IconModes : GetReference(mode)

SpecResource == ResourceInit /\ [][ResourceNext]_vars

\* the value of a base64 character, 0 for the padding
B64Value(ch) ==
    IF ch = "=" THEN 0 ELSE (CHOOSE k \in 1..64 : B64Chars[k] = ch) - 1

\* base64.StdEncoding.DecodeString(s): the bytes of a padded base64 text
RECURSIVE DecodeString(_)
DecodeString(s) ==
    IF Len(s) < 4 THEN <<>>
    ELSE LET v == B64Value(s[1]) * 262144 + B64Value(s[2]) * 4096
                      + B64Value(s[3]) * 64 + B64Value(s[4])
             bytes == <<v \div 65536, (v \div 256) % 256, v % 256>>
             n == IF s[3] = "=" THEN 1 ELSE IF s[4] = "=" THEN 2 ELSE 3
         IN  SubSeq(bytes, 1, n) \o DecodeString(SubSeq(s, 5, Len(s)))

\* a text without its line terminators
Stripped(s) == SelectSeq(s, LAMBDA tok : tok \notin {"\r", "\n"})

\* the payload of a data URL: what follows data:<mimeType>;base64,
PayloadOf(reference) == SubSeq(reference, 4, Len(reference))

\* a text is lines of exactly MimeLineLen characters, the last one not empty
\* and possibly shorter, joined by CRLF, with no terminator at its end
Wrapped(payload) ==
    /\ \A j \in 1..Len(payload) :
           /\ payload[j] = "\r" <=> j % (MimeLineLen + 2) = MimeLineLen + 1
           /\ payload[j] = "\n" <=> j % (MimeLineLen + 2) = 0
    /\ Len(payload) > 0 => payload[Len(payload)] \notin {"\r", "\n"}

Slashed(path) == [i \in 1..Len(path) |-> IF path[i] = "\\" THEN "/" ELSE path[i]]

----------------------------------------------------------------------------
(* SendMessage on its own: one call on a client that is registered or not,  *)
(* with no icon, an icon that loads and an icon file that is missing, and   *)
(* every outcome of its exchanges.                                          *)

SendMessages ==
    MessagesOver({<<>>, Heap[1].SourcePath, <<"missing.png">>}, {"", "Alert"}, {""},
                 {FALSE}, {0})

SendEnvs ==
    DialFails \cup WriteFails({1}, {0}) \cup Replies({OkReply, ErrorReply}, {"close"})
        \cup Replies({<<>>}, {"silent"})

SendInit == Setup({IconModeBinary, IconModeDataURL}, {0}, BOOLEAN, BOOLEAN)

SendNext == SendMessageOnce(SendMessages, Nanos, SendEnvs, SendEnvs)

SpecSend == SendInit /\ [][SendNext]_vars

\* the calls SendMessage can have been on the client c: the message and the
\* record of the call, for every message and every outcome of the exchanges
SendMessageCalls(c) ==
    {<<msg, SendMessageCall(c, msg, now, env1, env2, n)>> :
         msg \in SendMessages, now \in Nanos, env1 \in SendEnvs, env2 \in SendEnvs,
         n \in 0..1}

\* the icon file of the message cannot be loaded
IconMissing(msg) == msg.Icon # <<>> /\ \A q \in 1..Len(Heap) : Heap[q].SourcePath # msg.Icon

\* the notification type SendMessage registers for a message
TypeOfMessage(msg) ==
    [Name |-> msg.Event,
     DisplayName |-> IF msg.DisplayName = "" THEN msg.Event ELSE msg.DisplayName,
     Enabled |-> TRUE,
     Icon |-> IF msg.Icon = <<>> THEN 0
              ELSE CHOOSE q \in 1..Len(Heap) : Heap[q].SourcePath = msg.Icon]

\* what C27 says of the call r of SendMessage(msg) on the client c
AsStated(c, msg, r) ==
    IF IconMissing(msg)
    THEN /\ r.xs = <<>>
         /\ r.err # Nil
         /\ r.err[1] = "failed to load icon: "
         /\ r.registered = c.registered
    ELSE IF ~c.registered
    THEN /\ Len(r.xs) >= 1
         /\ r.xs[1].op = "REGISTER"
         /\ <<"Notifications-Count: ", "1">>
                \in {r.xs[1].packet[i] : i \in 1..Len(r.xs[1].packet)}
         /\ Cardinality(HeaderLines(r.xs[1].packet, "Notification-Name: ")) = 1
         /\ BlockOf(r.xs[1].packet, 2)
                = <<<<"Notification-Name: ", msg.Event>>,
                    <<"Notification-Display-Name: ",
                      IF msg.DisplayName = "" THEN msg.Event ELSE msg.DisplayName>>,
                    <<"Notification-Enabled: ", "True">>>>
                      \o (IF msg.Icon = <<>> THEN <<>>
                          ELSE <<<<"Notification-Icon: ">>
                                     \o getReference(Heap[TypeOfMessage(msg).Icon],
                                                     c.IconMode)>>)
         /\ IF r.xs[1].x.returned /\ r.xs[1].x.err = Nil
            THEN /\ Len(r.xs) = 2
                 /\ r.xs[2].op = "NOTIFY"
                 /\ <<"Notification-Name: ", msg.Event>>
                        \in {r.xs[2].packet[i] : i \in 1..Len(r.xs[2].packet)}
                 /\ r.err = r.xs[2].x.err
            ELSE /\ Len(r.xs) = 1
                 /\ r.xs[1].x.returned => r.err = r.xs[1].x.err
                 /\ r.registered = FALSE
    ELSE /\ Len(r.xs) = 1
         /\ r.xs[1].op = "NOTIFY"
         /\ <<"Notification-Name: ", msg.Event>>
                \in {r.xs[1].packet[i] : i \in 1..Len(r.xs[1].packet)}
         /\ r.err = r.xs[1].x.err

\* C27: SendMessage on a client that is not registered first makes a REGISTER
\* exchange for one notification type named msg.Event, its display name the
\* event name unless the message has one, and sends the NOTIFY only if that
\* REGISTER succeeded, returning the error of the REGISTER otherwise; on a
\* registered client it sends the NOTIFY only; and when the icon path is set and
\* the file cannot be loaded it returns the resource error with no exchange made
\* and registered as it was.
C27_SendMessageRegistersFirst ==
    last.op = "SendMessage"
        => /\ \E p \in SendMessageCalls(last.pre) : p[2] = last
           /\ \A p \in SendMessageCalls(last.pre) : AsStated(last.pre, p[1], p[2])
           /\ registered = last.registered

\* an unregistered client whose REGISTER and NOTIFY both went through, the type
\* registered under the event name
C27_Witness ==
    /\ last.op = "SendMessage"
    /\ ~last.pre.registered
    /\ Len(last.xs) = 2
    /\ last.err = Nil
    /\ registered
    /\ <<"Notification-Display-Name: ", "alert">>
           \in {last.xs[1].packet[i] : i \in 1..Len(last.xs[1].packet)}
    /\ HeaderLines(last.xs[1].packet, "Notification-Icon: ") # {}


\* C28: a Register or Notify call always returns. When the peer has accepted the
\* connection and the message, sends no complete response (nothing, or lines but
\* no blank line) and does not close, the deadline set on the connection ends
\* the read: the call returns the read error of the expired deadline, not
\* success, with the connection closed and, for Register, registered not set.
C28_DeadlineEndsCall ==
    /\ last.returned
    /\ \A e \in LastExchanges :
           (/\ ReadsResponse(e)
            /\ e.x.ending = "silent"
            /\ FirstBlankEnd(e.x.stream) = 0)
               => /\ e.x.deadline
                  /\ e.x.returned
                  /\ e.x.err = <<"failed to read response: ">> \o ErrDeadline
                  /\ last.err = e.x.err
                  /\ e.x.closed
                  /\ open = {}
                  /\ FlagNotSet(e)

\* a Register whose peer sent a status line, no blank line, and went silent
C28_Witness ==
    /\ last.op = "Register"
    /\ last.returned
    /\ \E e \in LastExchanges :
           /\ e.x.stream = <<"-OK", "\r", "\n">>
           /\ e.x.ending = "silent"
           /\ e.x.exit = "read"
           /\ e.x.err = <<"failed to read response: ">> \o ErrDeadline
           /\ e.x.closed
    /\ ~registered


\* the three kinds of callback event (gntp.go 65-74)
CallbackTypes == {<<"CLICK">>, <<"CLOSE">>, <<"TIMEOUT">>}

\* C29 as stated: every CallbackInfo passed to the registered handler has an
\* event kind that is one of CLICK, CLOSE and TIMEOUT.
C29_EventKindOneOfThree ==
    \A i \in DOMAIN inbound :
        \A k \in 1..Len(inbound[i].calls) : inbound[i].calls[k].info.Type \in CallbackTypes


----------------------------------------------------------------------------
(* The fragments: a callback message that reaches the client in two pieces, *)
(* cut at any place; conn.Read returns when the first piece has arrived.    *)

\* the callback message a server sends
FragmentMessage ==
    JoinCRLF(<<<<"Notification-Callback-Result: ", "CLICK">>,
               <<"Notification-ID: ", "abc">>, <<>>>>)

\* the message cut after its k-th item, and arriving whole
FragmentArrivals ==
    {[msg |-> SubSeq(FragmentMessage, 1, k),
      later |-> SubSeq(FragmentMessage, k + 1, Len(FragmentMessage)),
      rerr |-> FALSE] : k \in 1..Len(FragmentMessage)}

FragmentNext ==
    \/ \E l \in 1..MaxListeners : AcceptCallbacks(l, FragmentArrivals)
    \/ \E i \in 1..MaxInbound : HandleCallback(i, {TRUE})
    \/ \E i \in 1..MaxInbound : HandlerReturn(i)

SpecFragment == AcceptInit /\ [][FragmentNext]_vars

\* the headers of a callback message
CallbackHeaders ==
    {"Notification-Callback-Result: ", "Notification-ID: ",
     "Notification-Callback-Context: ", "Notification-Callback-Context-Type: "}

\* the field of a CallbackInfo a header goes to
FieldOf(info, header) ==
    CASE header = "Notification-Callback-Result: " -> info.Type
      [] header = "Notification-ID: " -> info.NotificationID
      [] header = "Notification-Callback-Context: " -> info.Context
      [] OTHER -> info.ContextType

\* C30: every accepted callback connection makes exactly one read call. The
\* CallbackInfo is built from the bytes that read returned and from nothing
\* else: a header that arrives in a later fragment is not in it, and the one
\* acknowledgement and the one handler invocation are made on the first fragment
\* alone, the later bytes never being read.
C30_SingleRead ==
    \A i \in DOMAIN inbound :
        /\ inbound[i].reads = (IF inbound[i].stage = "accepted" THEN 0 ELSE 1)
        /\ inbound[i].stage \in {"handler", "done"}
               => /\ inbound[i].info = InfoOf(inbound[i].msg)
                  /\ \A header \in CallbackHeaders :
                         LinesWith(inbound[i].msg, header) = {}
                             => FieldOf(inbound[i].info, header) = <<>>
                  /\ inbound[i].writes = 1
                  /\ inbound[i].sent = Acknowledgement
                  /\ Len(inbound[i].calls) = 1
                  /\ inbound[i].calls[1].info = inbound[i].info

\* the message cut after its first line: the handler gets the kind without the
\* notification identifier, which arrived later
C30_Witness ==
    \E i \in DOMAIN inbound :
        /\ inbound[i].msg = <<"Notification-Callback-Result: ", "CLICK", "\r", "\n">>
        /\ LinesWith(inbound[i].later, "Notification-ID: ") # {}
        /\ inbound[i].stage = "done"
        /\ inbound[i].reads = 1
        /\ Len(inbound[i].calls) = 1
        /\ inbound[i].calls[1].info.Type = <<"CLICK">>
        /\ inbound[i].calls[1].info.NotificationID = <<>>
        /\ inbound[i].sent = Acknowledgement


\* the values of the Notification-Priority headers of a packet
PriorityValues(packet) ==
    {packet[i][2] : i \in HeaderLines(packet, "Notification-Priority: ")}

\* C31 as stated: every Notification-Priority header of a NOTIFY packet, for any
\* NotifyOptions handed to NotifyWithOptions (its Priority set through
\* WithPriority or assigned directly) and for any Message handed to SendMessage,
\* carries a value from -2 to 2.
C31_PriorityInRange ==
    \A e \in LastExchanges :
        e.op = "NOTIFY" => PriorityValues(e.packet) \subseteq {ToString(p) : p \in -2..2}


----------------------------------------------------------------------------
(* The frame: Register and NotifyWithOptions called any number of times on  *)
(* a client whose setup is complete, with the callback goroutines running.  *)

FrameEnvs == Replies({OkReply, ErrorReply}, {"close"})

\* a connection that sends a callback
FrameArrivals == {a \in AcceptArrivals : ~a.rerr}

FrameInit == Setup({IconModeBinary, IconModeDataURL}, {0, 1}, {TRUE}, BOOLEAN)

FrameNext ==
    \/ Register({<<>>, <<NewNotificationType("alert")>>}, FrameEnvs)
    \/ NotifyWithOptions({"alert"}, LifeOptions, Nanos, FrameEnvs)
    \/ \E l \in 1..MaxListeners : AcceptCallbacks(l, FrameArrivals)
    \/ \E i \in 1..MaxInbound : HandleCallback(i, {TRUE})
    \/ \E i \in 1..MaxInbound : HandlerReturn(i)

SpecFrame == FrameInit /\ [][FrameNext]_vars

\* the references of Heap[1], the one icon of this specification, written by
\* a call: as the application icon of a REGISTER and as the icon of a NOTIFY
IconRefs(r) ==
    UNION {{Tail(r.xs[k].packet[i]) :
                i \in HeaderLines(r.xs[k].packet, "Application-Icon: ")
                       \cup HeaderLines(r.xs[k].packet, "Notification-Icon: ")} :
           k \in 1..Len(r.xs)}

\* a step that is the call op
CallStep(op) == last' # last /\ last'.op = op

\* a step of a callback goroutine
CallbackStep == inbound' # inbound \/ loops' # loops

----------------------------------------------------------------------------
(* The calls in flight: up to MaxCalls goroutines call Register and          *)
(* NotifyWithOptions on one client after its setup, and the steps of their   *)
(* transport functions interleave.  The variable last holds the goroutines   *)
(* (calls) and the connections they dialled (conns).                         *)

\* goroutines calling the client at the same time
MaxCalls == 2

\* a goroutine about to call op with these arguments; packet, resources, conn,
\* response and err are its local variables
Goroutine(op, notifications, options) ==
    [op |-> op, notifications |-> notifications, options |-> options,
     pc |-> "start", packet |-> <<>>, resources |-> <<>>, conn |-> 0,
     written |-> 0, response |-> <<>>, err |-> Nil]

GoCalls ==
    {Goroutine("Register", <<NewNotificationType("alert")>>, NewNotifyOptions),
     Goroutine("Notify", <<>>, [NewNotifyOptions EXCEPT !.Icon = 1])}

\* the caller starts the goroutines
Go ==
    /\ last.op = "none"
    /\ \E k \in 1..MaxCalls : \E calls \in [1..k -> GoCalls] :
           last' = [op |-> "go", calls |-> calls, conns |-> <<>>, returned |-> FALSE]
    /\ UNCHANGED <<clientVars, listeners, nconn, open, everRegistered, loops, inbound>>

\* the conn.Write calls of the transport function the call uses, in order
CallWrites(mode, call) ==
    IF mode = IconModeBinary
    THEN <<[buf |-> call.packet, what |-> "packet"]>> \o ResourceWrites(call.resources)
             \o <<[buf |-> <<BlankLine>>, what |-> "termination"]>>
    ELSE <<[buf |-> call.packet, what |-> "packet"]>>

\* the transport with the connection kept in one place shared by all calls: the
\* connection dialled last
ConnShared(g) == nconn

\* the local variable conn of goroutine g
Conn(g) == last.calls[g].conn

\* the goroutine g with its call record replaced
Becomes(g, call) == [last EXCEPT !.calls[g] = call]

\* the call up to net.DialTimeout: the test of the flag (NotifyWithOptions), the
\* packet built from the client, and the dial
Dial(g, oks, streams) ==
    /\ last.op = "go"
    /\ g \in DOMAIN last.calls
    /\ last.calls[g].pc = "start"
    /\ LET call == last.calls[g]
           p == IF call.op = "Register"
                THEN RegisterPacket(Client, call.notifications)
                ELSE NotifyPacket(Client, "alert", "title", "text", call.options,
                                  CHOOSE now \in Nanos : TRUE)
           built == [call EXCEPT !.packet = p.packet, !.resources = p.resources]
       IN  IF call.op = "Notify" /\ ~registered
           THEN /\ last' = Becomes(g, [call EXCEPT !.pc = "returned",
                                                   !.err = ErrNotRegistered])
                /\ UNCHANGED <<nconn, open>>
           ELSE \E ok \in oks :
                    IF ~ok
                    THEN /\ last' = Becomes(g,
                                 [built EXCEPT !.pc = "returned",
                                               !.err = <<"failed to connect to ",
                                                         Host, ":", ToString(Port),
                                                         ": ">> \o ErrRefused])
                         /\ UNCHANGED <<nconn, open>>
                    ELSE \E stream \in streams :
                             /\ last' = [Becomes(g, [built EXCEPT !.pc = "write",
                                                                  !.conn = nconn + 1])
                                             EXCEPT !.conns = Append(@,
                                                 [id |-> nconn + 1, wire |-> <<>>,
                                                  writers |-> <<>>, reply |-> stream,
                                                  unread |-> stream, readers |-> <<>>,
                                                  closed |-> FALSE])]
                             /\ nconn' = nconn + 1
                             /\ open' = open \cup {nconn + 1}
    /\ UNCHANGED <<clientVars, listeners, everRegistered, loops, inbound>>

\* the position in conns of the connection id
ConnAt(id) == CHOOSE k \in DOMAIN last.conns : last.conns[k].id = id

\* the next conn.Write of goroutine g
Write(g) ==
    /\ last.op = "go"
    /\ g \in DOMAIN last.calls
    /\ last.calls[g].pc = "write"
    /\ LET call == last.calls[g]
           writes == CallWrites(IconMode, call)
           k == call.written + 1
           at == ConnAt(Conn(g))
       IN  last' = [Becomes(g, [call EXCEPT !.written = k,
                                            !.pc = IF k = Len(writes) THEN "read"
                                                   ELSE "write"])
                        EXCEPT !.conns[at].wire = @ \o writes[k].buf,
                               !.conns[at].writers = Append(@, g)]
    /\ UNCHANGED <<clientVars, listeners, nconn, open, everRegistered, loops, inbound>>

\* the response loop of goroutine g, the check of the response, the deferred
\* conn.Close() and, in Register, the assignment of the flag
ReadResponse(g) ==
    /\ last.op = "go"
    /\ g \in DOMAIN last.calls
    /\ last.calls[g].pc = "read"
    /\ LET call == last.calls[g]
           at == ConnAt(Conn(g))
           r == readLoop(last.conns[at].unread, "close", TRUE, <<>>)
           v == checkResponse(r.response)
           err == IF r.err # Nil THEN r.err ELSE v.err
           ok == call.op = "Register" /\ err = Nil
       IN  /\ last' = [Becomes(g, [call EXCEPT !.pc = "returned",
                                               !.response = r.response,
                                               !.err = err])
                           EXCEPT !.conns[at].unread = r.rest,
                                  !.conns[at].readers = Append(@, g),
                                  !.conns[at].closed = TRUE]
           /\ open' = open \ {Conn(g)}
           /\ registered' = (registered \/ ok)
           /\ everRegistered' = (everRegistered \/ ok)
    /\ UNCHANGED <<Host, Port, ApplicationName, ApplicationIcon, IconMode,
                   callbackListener, callbackHandler, callbackURL, listeners, nconn,
                   loops, inbound>>

ConcurrentInit == Setup({IconModeBinary, IconModeDataURL}, {1}, {FALSE}, BOOLEAN)

ConcurrentNext ==
    \/ Go
    \/ \E g \in 1..MaxCalls : Dial(g, BOOLEAN, {OkReply, ErrorReply})
    \/ \E g \in 1..MaxCalls : Write(g)
    \/ \E g \in 1..MaxCalls : ReadResponse(g)

SpecConcurrent == ConcurrentInit /\ [][ConcurrentNext]_vars

\* the goroutines in flight
Calls == IF last.op = "go" THEN last.calls ELSE <<>>

\* the connections dialled by the goroutines in flight
Conns == IF last.op = "go" THEN last.conns ELSE <<>>

\* what the first n conn.Write calls of a call put on the wire
WrittenBy(call, n) ==
    Flatten([i \in 1..n |-> CallWrites(IconMode, call)[i].buf])

\* C33: when Register and Notify calls run concurrently on one client after its
\* setup, each call that dials uses a connection of its own; the bytes on every
\* connection are those of the writes of the one call that dialled it, in
\* order, and once that call has finished writing they are exactly its complete
\* message (the packet, and in Binary mode its resources and the terminator);
\* each call reads and validates the response of its own connection only.
C33_OwnConnection ==
    /\ \A k \in DOMAIN Conns :
           \E g \in DOMAIN Calls :
               /\ Calls[g].conn = Conns[k].id
               /\ \A h \in DOMAIN Calls : Calls[h].conn = Conns[k].id => h = g
               /\ \A i \in DOMAIN Conns[k].writers : Conns[k].writers[i] = g
               /\ \A i \in DOMAIN Conns[k].readers : Conns[k].readers[i] = g
               /\ Conns[k].wire = WrittenBy(Calls[g], Calls[g].written)
               /\ Calls[g].pc \in {"read", "returned"} =>
                      Conns[k].wire = FullWire(IconMode, Calls[g])
               /\ Calls[g].pc = "returned" =>
                      /\ Conns[k].readers = <<g>>
                      /\ Calls[g].response = Conns[k].reply
                      /\ (Calls[g].err = Nil) = ~Contains(Conns[k].reply, "-ERROR")
    /\ \A g \in DOMAIN Calls :
           Calls[g].conn # 0 => \E k \in DOMAIN Conns : Conns[k].id = Calls[g].conn

\* two calls are in the middle of their writes at the same time
C33_Witness ==
    \E g, h \in DOMAIN Calls :
        /\ g # h
        /\ Calls[g].pc = "write" /\ Calls[g].written >= 1
        /\ Calls[h].pc = "write" /\ Calls[h].written >= 1


----------------------------------------------------------------------------
(* The sequence of calls: Register, NotifyWithOptions and SendMessage in any *)
(* order on a new client, each call keeping the record of the calls before   *)
(* it (earlier).  NotifyWithOptions is called once the flag is set: before,  *)
(* it makes no exchange.                                                     *)

EventLists == ListsOver(TypesOver({"alert", "warn"}, {""}, {TRUE}, {0}), 1)

EventMessages ==
    {[m EXCEPT !.Event = event] :
         m \in MessagesOver({<<>>}, {""}, {""}, {FALSE}, {0}),
         event \in {"alert", "warn"}}

EventEnvs == Replies({OkReply, ErrorReply}, {"close"})

\* the record r of a call with the records of the calls made before it
Recorded(r) ==
    [f \in DOMAIN r \cup {"earlier"} |-> IF f = "earlier" THEN last ELSE r[f]]

EventInit == Setup({IconModeDataURL}, {0}, {FALSE}, {FALSE})

EventNext ==
    \/ /\ Ready(1)
       /\ \E notifications \in EventLists, env \in EventEnvs :
              Apply(Recorded(RegisterCall(Client, notifications, env, nconn + 1)))
    \/ /\ registered
       /\ Ready(1)
       /\ \E name \in {"alert", "warn"}, now \in Nanos, env \in EventEnvs :
              Apply(Recorded(NotifyCall(Client, name, "title", "text",
                                        NewNotifyOptions, now, env, nconn + 1)))
    \/ /\ Ready(2)
       /\ \E msg \in EventMessages, now \in Nanos, env1, env2 \in EventEnvs :
              Apply(Recorded(SendMessageCall(Client, msg, now, env1, env2, nconn)))

SpecEvent == EventInit /\ [][EventNext]_vars

\* the notification names of a packet
NamesIn(packet) ==
    {packet[i][2] : i \in HeaderLines(packet, "Notification-Name: ")}

\* the names declared by the successful REGISTER exchanges among the first n
\* exchanges of the call r
DeclaredIn(r, n) ==
    UNION {NamesIn(r.xs[k].packet) :
               k \in {j \in 1..n : /\ r.xs[j].op = "REGISTER"
                                   /\ r.xs[j].x.returned
                                   /\ r.xs[j].x.err = Nil}}

\* the names declared by the successful REGISTER exchanges of the calls before r
RECURSIVE DeclaredBefore(_)
DeclaredBefore(r) ==
    IF "earlier" \in DOMAIN r
    THEN DeclaredIn(r.earlier, Len(r.earlier.xs)) \cup DeclaredBefore(r.earlier)
    ELSE {}

\* C34 as stated: every NOTIFY that SendMessage sends names a notification type
\* that an earlier successful REGISTER exchange of the same client included, in
\* any sequence of SendMessage, Register and Notify calls.
C34_EventRegistered ==
    last.op = "SendMessage" =>
        \A i \in 1..Len(last.xs) :
            last.xs[i].op = "NOTIFY" =>
                NamesIn(last.xs[i].packet)
                    \subseteq DeclaredIn(last, i - 1) \cup DeclaredBefore(last)

====
